---------------------------- MODULE Spec2Model ----------------------------
(* A model of the tdbtk on-disk codec: filter descriptor decoding, filter  *)
(* chain construction, the reverse-order unfilter walk over chunks, the    *)
(* generic tile container read and the head of the array schema decoder.   *)
EXTENDS Integers, Sequences, FiniteSets, TLC

(***************************************************************************)
(* Bounds of the model                                                     *)
(***************************************************************************)
MaxFilters == 2
MaxChunks == 2
MaxPayload == 2
MaxOffset == 1
MaxVersion == 23

(***************************************************************************)
(* Little-endian integers over byte sequences (binrw, #[brw(little)])      *)
(***************************************************************************)
\* With(e, F) is F applied to the value of e, which is computed once.
With(e, F(_)) == CHOOSE r \in {F(v) : v \in {e}} : TRUE

Zeros(n) == [i \in 1..n |-> 0]

Resize(s, n) == [i \in 1..n |-> IF i <= Len(s) THEN s[i] ELSE 0]

Slice(s, from, to) == [i \in 1..(to - from) |-> s[from + i]]

\* Little-endian bytes of an unsigned value below 2^24, w bytes wide
LEBytes(n, w) ==
  [i \in 1..w |-> CASE i = 1 -> n % 256
                    [] i = 2 -> (n \div 256) % 256
                    [] i = 3 -> (n \div 65536) % 256
                    [] OTHER -> 0]

\* Unsigned reads.  Values of 2^24 and above are all read as Huge, which
\* is larger than every buffer and count of the model.
Huge == 16777216

LEValue(s, pos, w) ==
  IF \E i \in 4..w : s[pos + i] # 0 THEN Huge
  ELSE LET B(i) == IF i <= w THEN s[pos + i] ELSE 0 IN
       B(1) + 256 * B(2) + 65536 * B(3)

\* i32 from four little-endian bytes, two's complement
I32Value(s, pos) ==
  IF s[pos + 4] < 128
  THEN s[pos + 1] + 256 * s[pos + 2] + 65536 * s[pos + 3]
       + 16777216 * s[pos + 4]
  ELSE -((255 - s[pos + 1]) + 256 * (255 - s[pos + 2])
         + 65536 * (255 - s[pos + 3]) + 16777216 * (255 - s[pos + 4]) + 1)

Fail(msg) == [ok |-> FALSE, err |-> msg]

ReadInt(s, pos, w) ==
  IF pos + w > Len(s) THEN Fail("eof")
  ELSE [ok |-> TRUE, val |-> LEValue(s, pos, w), pos |-> pos + w]

ReadI32(s, pos) ==
  IF pos + 4 > Len(s) THEN Fail("eof")
  ELSE [ok |-> TRUE, val |-> I32Value(s, pos), pos |-> pos + 4]

ReadBytes(s, pos, n) ==
  IF pos + n > Len(s) THEN Fail("eof")
  ELSE [ok |-> TRUE, val |-> Slice(s, pos, pos + n), pos |-> pos + n]

\* The concatenation of the sequences of ss, in order
Flatten(ss) ==
  LET RECURSIVE Upto(_)
      Upto(k) == IF k = 0 THEN <<>>
                 ELSE With(Upto(k - 1), LAMBDA front : front \o ss[k]) IN
  Upto(Len(ss))

(***************************************************************************)
(* filters::FilterType and its byte conversions                            *)
(***************************************************************************)
FilterTypeNames ==
  <<"None", "GZip", "Zstd", "LZ4", "Rle", "BZip2", "DoubleDelta",
    "BitWidthReduction", "BitShuffle", "ByteShuffle", "PositiveDelta",
    "Encryption", "ChecksumMD5", "ChecksumSHA256", "Dictionary",
    "ScaleFloat", "Xor", "Deprecated", "WebP", "Delta">>

FilterType == {FilterTypeNames[i] : i \in 1..Len(FilterTypeNames)} \cup {"Invalid"}

FilterTypeFromU8(orig) ==
  IF orig < Len(FilterTypeNames) THEN FilterTypeNames[orig + 1] ELSE "Invalid"

FilterTypeAsU8(ftype) ==
  IF ftype = "Invalid" THEN 255
  ELSE CHOOSE b \in 0..(Len(FilterTypeNames) - 1) : FilterTypeNames[b + 1] = ftype

(***************************************************************************)
(* storage::filter -- classification of the kind tag and FilterConfig      *)
(***************************************************************************)
is_compression_filter(ftype) ==
  ftype \in {"GZip", "Zstd", "LZ4", "Rle", "BZip2", "Delta", "DoubleDelta",
             "Dictionary"}

is_bit_width_reduction_filter(ftype) == ftype = "BitWidthReduction"

is_positive_delta_filter(ftype) == ftype = "PositiveDelta"

is_scale_float_filter(ftype) == ftype = "ScaleFloat"

is_webp_filter(ftype) == ftype = "WebP"

\* is_no_config_filter written before the WebP shape was added
is_no_config_filter_before_webp(ftype) ==
  ~(\/ is_compression_filter(ftype)
    \/ is_bit_width_reduction_filter(ftype)
    \/ is_positive_delta_filter(ftype)
    \/ is_scale_float_filter(ftype))

is_no_config_filter(ftype) ==
  ~(\/ is_compression_filter(ftype)
    \/ is_bit_width_reduction_filter(ftype)
    \/ is_positive_delta_filter(ftype)
    \/ is_scale_float_filter(ftype)
    \/ is_webp_filter(ftype))

has_reinterpret_type(version, filter_type) ==
  \/ version >= 19 /\ filter_type = "Delta"
  \/ version >= 20 /\ filter_type = "DoubleDelta"

\* One variant of the FilterConfig enum: its pre_assert and its field reads.
ReadCompression(s, pos, version, filter_type) ==
  With(ReadInt(s, pos, 1), LAMBDA ct :
  IF ~ct.ok THEN ct ELSE
  With(ReadI32(s, ct.pos), LAMBDA lv :
  IF ~lv.ok THEN lv ELSE
  With(IF has_reinterpret_type(version, filter_type)
       THEN ReadInt(s, lv.pos, 1)
       ELSE [ok |-> TRUE, val |-> 0, pos |-> lv.pos], LAMBDA rt :
  IF ~rt.ok THEN rt ELSE
  [ok |-> TRUE, pos |-> rt.pos,
   val |-> [shape |-> "Compression",
            compressor_type |-> FilterTypeFromU8(ct.val),
            compression_level |-> lv.val,
            reinterpret_type |-> rt.val]])))

ReadFixedConfig(s, pos, shape, size) ==
  With(ReadBytes(s, pos, size), LAMBDA r :
  IF ~r.ok THEN r
  ELSE [ok |-> TRUE, pos |-> r.pos, val |-> [shape |-> shape, raw |-> r.val]])

\* binrw tries the variants in declaration order; a variant whose pre_assert
\* or read fails rewinds the reader and the next variant is tried.
FilterConfigVariants ==
  <<"Compression", "BitWidthReduction", "PositiveDelta", "ScaleFloat",
    "WebP", "None">>

ReadVariant(s, pos, version, filter_type, variant) ==
  CASE variant = "Compression" ->
         IF is_compression_filter(filter_type)
         THEN ReadCompression(s, pos, version, filter_type)
         ELSE Fail("pre_assert")
    [] variant = "BitWidthReduction" ->
         IF is_bit_width_reduction_filter(filter_type)
         THEN ReadFixedConfig(s, pos, variant, 4) ELSE Fail("pre_assert")
    [] variant = "PositiveDelta" ->
         IF is_positive_delta_filter(filter_type)
         THEN ReadFixedConfig(s, pos, variant, 4) ELSE Fail("pre_assert")
    [] variant = "ScaleFloat" ->
         IF is_scale_float_filter(filter_type)
         THEN ReadFixedConfig(s, pos, variant, 24) ELSE Fail("pre_assert")
    [] variant = "WebP" ->
         IF is_webp_filter(filter_type)
         THEN ReadFixedConfig(s, pos, variant, 10) ELSE Fail("pre_assert")
    [] OTHER ->
         IF is_no_config_filter(filter_type)
         THEN [ok |-> TRUE, pos |-> pos, val |-> [shape |-> "None"]]
         ELSE Fail("pre_assert")

RECURSIVE ReadFilterConfigFrom(_, _, _, _, _)
ReadFilterConfigFrom(s, pos, version, filter_type, k) ==
  IF k > Len(FilterConfigVariants) THEN Fail("no variant")
  ELSE With(ReadVariant(s, pos, version, filter_type, FilterConfigVariants[k]),
            LAMBDA r :
              IF r.ok THEN r
              ELSE ReadFilterConfigFrom(s, pos, version, filter_type, k + 1))

ReadFilterConfig(s, pos, version, filter_type) ==
  ReadFilterConfigFrom(s, pos, version, filter_type, 1)

\* ReadFilter without the assertion on the kind
ReadFilterNoAssert(s, pos, version) ==
  With(ReadInt(s, pos, 1), LAMBDA kb :
  IF ~kb.ok THEN kb ELSE
  With(FilterTypeFromU8(kb.val), LAMBDA filter_type :
  With(ReadInt(s, kb.pos, 4), LAMBDA ml :
  IF ~ml.ok THEN ml ELSE
  With(ReadFilterConfig(s, ml.pos, version, filter_type), LAMBDA cfg :
  IF ~cfg.ok THEN cfg ELSE
  [ok |-> TRUE, pos |-> cfg.pos,
   val |-> [filter_type |-> filter_type, metadata_len |-> ml.val,
            config |-> cfg.val]]))))

\* ReadFilter rejecting a metadata_len that is not the length of the config
ReadFilterCheckedLen(s, pos, version) ==
  With(ReadFilterNoAssert(s, pos, version), LAMBDA r :
    IF ~r.ok THEN r
    ELSE IF r.val.filter_type = "Invalid" THEN Fail("assert filter_type")
    ELSE IF r.val.metadata_len # r.pos - (pos + 1 + 4)
    THEN Fail("assert metadata_len")
    ELSE r)

\* storage::filter::Filter -- kind byte, assertion, metadata_len, config
ReadFilter(s, pos, version) ==
  With(ReadInt(s, pos, 1), LAMBDA kb :
  IF ~kb.ok THEN kb ELSE
  With(FilterTypeFromU8(kb.val), LAMBDA filter_type :
  IF filter_type = "Invalid" THEN Fail("assert filter_type") ELSE
  With(ReadInt(s, kb.pos, 4), LAMBDA ml :
  IF ~ml.ok THEN ml ELSE
  With(ReadFilterConfig(s, ml.pos, version, filter_type), LAMBDA cfg :
  IF ~cfg.ok THEN cfg ELSE
  [ok |-> TRUE, pos |-> cfg.pos,
   val |-> [filter_type |-> filter_type, metadata_len |-> ml.val,
            config |-> cfg.val]]))))

RECURSIVE ReadFilters(_, _, _, _, _)
ReadFilters(s, pos, version, count, acc) ==
  IF count = 0 THEN [ok |-> TRUE, pos |-> pos, val |-> acc]
  ELSE With(ReadFilter(s, pos, version), LAMBDA one :
         IF ~one.ok THEN one
         ELSE With(Append(acc, one.val), LAMBDA acc2 :
                ReadFilters(s, one.pos, version, count - 1, acc2)))

\* storage::filter::FilterList
ReadFilterList(s, pos, version) ==
  With(ReadInt(s, pos, 4), LAMBDA mc :
  IF ~mc.ok THEN mc ELSE
  With(ReadInt(s, mc.pos, 4), LAMBDA nf :
  IF ~nf.ok THEN nf ELSE
  With(ReadFilters(s, nf.pos, version, nf.val, <<>>), LAMBDA fs :
  IF ~fs.ok THEN fs ELSE
  [ok |-> TRUE, pos |-> fs.pos,
   val |-> [max_chunk_size |-> mc.val, num_filters |-> nf.val,
            filters |-> fs.val]])))

(***************************************************************************)
(* storage (mod.rs) -- its own FilterConfig and Filter, which take no      *)
(* version                                                                 *)
(***************************************************************************)
is_compression_filter_mod(ftype) ==
  ftype \in {"GZip", "Zstd", "Rle", "BZip2", "Delta", "DoubleDelta",
             "Dictionary"}

is_no_config_filter_mod(ftype) ==
  ~(\/ is_compression_filter_mod(ftype)
    \/ is_bit_width_reduction_filter(ftype)
    \/ is_positive_delta_filter(ftype)
    \/ is_scale_float_filter(ftype)
    \/ is_webp_filter(ftype))

ReadCompressionMod(s, pos) ==
  With(ReadInt(s, pos, 1), LAMBDA ct :
  IF ~ct.ok THEN ct ELSE
  With(FilterTypeFromU8(ct.val), LAMBDA compressor_type :
  With(ReadI32(s, ct.pos), LAMBDA lv :
  IF ~lv.ok THEN lv ELSE
  With(IF compressor_type \in {"Delta", "DoubleDelta"}
       THEN ReadInt(s, lv.pos, 1)
       ELSE [ok |-> TRUE, val |-> 0, pos |-> lv.pos], LAMBDA rt :
  IF ~rt.ok THEN rt ELSE
  [ok |-> TRUE, pos |-> rt.pos,
   val |-> [shape |-> "Compression", compressor_type |-> compressor_type,
            compression_level |-> lv.val, reinterpret_type |-> rt.val]]))))

ReadVariantMod(s, pos, filter_type, variant) ==
  CASE variant = "Compression" ->
         IF is_compression_filter_mod(filter_type)
         THEN ReadCompressionMod(s, pos) ELSE Fail("pre_assert")
    [] variant = "BitWidthReduction" ->
         IF is_bit_width_reduction_filter(filter_type)
         THEN ReadFixedConfig(s, pos, variant, 4) ELSE Fail("pre_assert")
    [] variant = "PositiveDelta" ->
         IF is_positive_delta_filter(filter_type)
         THEN ReadFixedConfig(s, pos, variant, 4) ELSE Fail("pre_assert")
    [] variant = "ScaleFloat" ->
         IF is_scale_float_filter(filter_type)
         THEN ReadFixedConfig(s, pos, variant, 24) ELSE Fail("pre_assert")
    [] variant = "WebP" ->
         IF is_webp_filter(filter_type)
         THEN ReadFixedConfig(s, pos, variant, 10) ELSE Fail("pre_assert")
    [] OTHER ->
         IF is_no_config_filter_mod(filter_type)
         THEN [ok |-> TRUE, pos |-> pos, val |-> [shape |-> "None"]]
         ELSE Fail("pre_assert")

RECURSIVE ReadFilterConfigModFrom(_, _, _, _)
ReadFilterConfigModFrom(s, pos, filter_type, k) ==
  IF k > Len(FilterConfigVariants) THEN Fail("no variant")
  ELSE With(ReadVariantMod(s, pos, filter_type, FilterConfigVariants[k]),
            LAMBDA r :
              IF r.ok THEN r
              ELSE ReadFilterConfigModFrom(s, pos, filter_type, k + 1))

ReadFilterMod(s, pos) ==
  With(ReadInt(s, pos, 1), LAMBDA kb :
  IF ~kb.ok THEN kb ELSE
  With(FilterTypeFromU8(kb.val), LAMBDA filter_type :
  IF filter_type = "Invalid" THEN Fail("assert filter_type") ELSE
  With(ReadInt(s, kb.pos, 4), LAMBDA ml :
  IF ~ml.ok THEN ml ELSE
  With(ReadFilterConfigModFrom(s, ml.pos, filter_type, 1), LAMBDA cfg :
  IF ~cfg.ok THEN cfg ELSE
  [ok |-> TRUE, pos |-> cfg.pos,
   val |-> [filter_type |-> filter_type, metadata_len |-> ml.val,
            config |-> cfg.val]]))))

(***************************************************************************)
(* storage::tile -- Chunk, ChunkedData, CompressionChunks, header          *)
(***************************************************************************)
GENERIC_TILE_HEADER_SIZE == 34

DefaultChunk ==
  [original_size |-> 0, data_size |-> 0, metadata_size |-> 0,
   metadata |-> <<>>, data |-> <<>>]

ReadChunk(s, pos) ==
  With(ReadInt(s, pos, 4), LAMBDA os :
  IF ~os.ok THEN os ELSE
  With(ReadInt(s, os.pos, 4), LAMBDA ds :
  IF ~ds.ok THEN ds ELSE
  With(ReadInt(s, ds.pos, 4), LAMBDA ms :
  IF ~ms.ok THEN ms ELSE
  With(ReadBytes(s, ms.pos, ms.val), LAMBDA md :
  IF ~md.ok THEN md ELSE
  With(ReadBytes(s, md.pos, ds.val), LAMBDA da :
  IF ~da.ok THEN da ELSE
  [ok |-> TRUE, pos |-> da.pos,
   val |-> [original_size |-> os.val, data_size |-> ds.val,
            metadata_size |-> ms.val, metadata |-> md.val,
            data |-> da.val]])))))

RECURSIVE ReadChunkSeq(_, _, _, _)
ReadChunkSeq(s, pos, count, acc) ==
  IF count = 0 THEN [ok |-> TRUE, pos |-> pos, val |-> acc]
  ELSE With(ReadChunk(s, pos), LAMBDA one :
         IF ~one.ok THEN one
         ELSE With(Append(acc, one.val), LAMBDA acc2 :
                ReadChunkSeq(s, one.pos, count - 1, acc2)))

ReadChunkedData(s, pos) ==
  With(ReadInt(s, pos, 8), LAMBDA nc :
  IF ~nc.ok THEN nc ELSE
  With(ReadChunkSeq(s, nc.pos, nc.val, <<>>), LAMBDA cs :
  IF ~cs.ok THEN cs ELSE
  [ok |-> TRUE, pos |-> cs.pos,
   val |-> [num_chunks |-> nc.val, chunks |-> cs.val]]))

\* ChunkedData::new -- num_chunks default chunks
NewChunkedData(num_chunks) == [i \in 1..num_chunks |-> DefaultChunk]

ReadCompressionChunkInfo(s, pos) ==
  With(ReadInt(s, pos, 4), LAMBDA us :
  IF ~us.ok THEN us ELSE
  With(ReadInt(s, us.pos, 4), LAMBDA cs :
  IF ~cs.ok THEN cs ELSE
  [ok |-> TRUE, pos |-> cs.pos,
   val |-> [uncompressed_size |-> us.val, compressed_size |-> cs.val]]))

RECURSIVE ReadParts(_, _, _, _)
ReadParts(s, pos, count, acc) ==
  IF count = 0 THEN [ok |-> TRUE, pos |-> pos, val |-> acc]
  ELSE With(ReadCompressionChunkInfo(s, pos), LAMBDA one :
         IF ~one.ok THEN one
         ELSE With(Append(acc, one.val), LAMBDA acc2 :
                ReadParts(s, one.pos, count - 1, acc2)))

ReadCompressionChunks(s) ==
  With(ReadInt(s, 0, 4), LAMBDA nm :
  IF ~nm.ok THEN nm ELSE
  With(ReadInt(s, nm.pos, 4), LAMBDA nd :
  IF ~nd.ok THEN nd ELSE
  With(ReadParts(s, nd.pos, nm.val, <<>>), LAMBDA mp :
  IF ~mp.ok THEN mp ELSE
  With(ReadParts(s, mp.pos, nd.val, <<>>), LAMBDA dp :
  IF ~dp.ok THEN dp ELSE
  [ok |-> TRUE, pos |-> dp.pos,
   val |-> [metadata_parts |-> mp.val, data_parts |-> dp.val]]))))

ReadGenericTileHeader(s, pos) ==
  With(ReadInt(s, pos, 4), LAMBDA v :
  IF ~v.ok THEN v ELSE
  With(ReadInt(s, v.pos, 8), LAMBDA ps :
  IF ~ps.ok THEN ps ELSE
  With(ReadInt(s, ps.pos, 8), LAMBDA ts :
  IF ~ts.ok THEN ts ELSE
  With(ReadInt(s, ts.pos, 1), LAMBDA dt :
  IF ~dt.ok THEN dt ELSE
  With(ReadInt(s, dt.pos, 8), LAMBDA cs :
  IF ~cs.ok THEN cs ELSE
  With(ReadInt(s, cs.pos, 1), LAMBDA et :
  IF ~et.ok THEN et ELSE
  With(ReadInt(s, et.pos, 4), LAMBDA fp :
  IF ~fp.ok THEN fp ELSE
  [ok |-> TRUE, pos |-> fp.pos,
   val |-> [version |-> v.val, persisted_size |-> ps.val,
            tile_size |-> ts.val, datatype |-> dt.val, cell_size |-> cs.val,
            encryption_type |-> et.val,
            filter_pipeline_size |-> fp.val]])))))))

(***************************************************************************)
(* filters::gzip -- the (de)compression primitive and GZipFilter::unfilter *)
(***************************************************************************)
\* GZipFilter::compress: the codec is modelled by stored blocks, a length
\* byte followed by the bytes themselves.
compress(input) == <<Len(input)>> \o input

\* GZipFilter::decompress into a caller-sized output slice: fails on a
\* corrupt stream and when the output slice is too small; a larger slice
\* keeps its tail.
do_decompress(input, output) ==
  IF Len(input) = 0 \/ input[1] # Len(input) - 1 THEN Fail("corrupt")
  ELSE IF input[1] > Len(output) THEN Fail("output too small")
  ELSE [ok |-> TRUE,
        val |-> [i \in 1..Len(output) |->
                   IF i <= input[1] THEN input[i + 1] ELSE output[i]]]

Sum(parts, field) ==
  LET RECURSIVE Upto(_)
      Upto(k) == IF k = 0 THEN 0 ELSE parts[k][field] + Upto(k - 1) IN
  Upto(Len(parts))

Splice(buf, from, piece) ==
  [i \in 1..Len(buf) |->
     IF i > from /\ i <= from + Len(piece) THEN piece[i - from] ELSE buf[i]]

\* The `decompress` closure applied to the parts of one pass, in order.
RECURSIVE DecompressParts(_, _, _, _, _, _, _, _)
DecompressParts(parts, k, data, out, input_offset, output_offset, pass, log) ==
  IF k > Len(parts)
  THEN [status |-> "ok", out |-> out, input_offset |-> input_offset, log |-> log]
  ELSE
    With(input_offset + parts[k].compressed_size, LAMBDA input_end :
    With(output_offset + parts[k].uncompressed_size, LAMBDA output_end :
    IF input_end > Len(data) \/ output_end > Len(out)
    THEN [status |-> "panic", out |-> out, input_offset |-> input_offset,
          log |-> log]
    ELSE
      With(do_decompress(Slice(data, input_offset, input_end),
                         Slice(out, output_offset, output_end)), LAMBDA r :
      IF ~r.ok
      THEN [status |-> "err", out |-> out, input_offset |-> input_offset,
            log |-> log]
      ELSE
        With(Splice(out, output_offset, r.val), LAMBDA out2 :
        With(Append(log, [pass |-> pass, part |-> k,
                          in_from |-> input_offset, in_to |-> input_end,
                          out_from |-> output_offset, out_to |-> output_end]),
             LAMBDA log2 :
        DecompressParts(parts, k + 1, data, out2, input_end, output_end,
                        pass, log2))))))

\* GZipUnfilter with the input cursor started again for the data pass
GZipUnfilterResetInput(input, output) ==
  With(ReadCompressionChunks(input.metadata), LAMBDA comp_info :
  IF ~comp_info.ok
  THEN [status |-> "err", input |-> input, output |-> output, log |-> <<>>]
  ELSE
    With(Sum(comp_info.val.metadata_parts, "uncompressed_size"),
         LAMBDA total_metadata_size :
    With(Sum(comp_info.val.data_parts, "uncompressed_size"),
         LAMBDA total_data_size :
    With(Resize(output.metadata, total_metadata_size), LAMBDA md0 :
    With(Resize(output.data, total_data_size), LAMBDA da0 :
    With(DecompressParts(comp_info.val.metadata_parts, 1, input.data, md0,
                         0, 0, "metadata", <<>>), LAMBDA m :
    IF m.status # "ok"
    THEN [status |-> m.status, input |-> input, log |-> m.log,
          output |-> [output EXCEPT !.metadata = m.out, !.data = da0]]
    ELSE
      With(DecompressParts(comp_info.val.data_parts, 1, input.data, da0,
                           0, 0, "data", m.log), LAMBDA d :
      [status |-> d.status, input |-> input, log |-> d.log,
       output |-> [output EXCEPT !.metadata = m.out, !.data = d.out]])))))))

\* impl Filter for GZipFilter (the same body as compression::decompress)
GZipUnfilter(input, output) ==
  With(ReadCompressionChunks(input.metadata), LAMBDA comp_info :
  IF ~comp_info.ok
  THEN [status |-> "err", input |-> input, output |-> output, log |-> <<>>]
  ELSE
    With(Sum(comp_info.val.metadata_parts, "uncompressed_size"),
         LAMBDA total_metadata_size :
    With(Sum(comp_info.val.data_parts, "uncompressed_size"),
         LAMBDA total_data_size :
    With(Resize(output.metadata, total_metadata_size), LAMBDA md0 :
    With(Resize(output.data, total_data_size), LAMBDA da0 :
    With(DecompressParts(comp_info.val.metadata_parts, 1, input.data, md0,
                         0, 0, "metadata", <<>>), LAMBDA m :
    IF m.status # "ok"
    THEN [status |-> m.status, input |-> input, log |-> m.log,
          output |-> [output EXCEPT !.metadata = m.out, !.data = da0]]
    ELSE
      With(DecompressParts(comp_info.val.data_parts, 1, input.data, da0,
                           m.input_offset, 0, "data", m.log), LAMBDA d :
      [status |-> d.status, input |-> input, log |-> d.log,
       output |-> [output EXCEPT !.metadata = m.out, !.data = d.out]])))))))

\* impl Filter for EmptyFilter: std::mem::swap(output, input)
EmptyUnfilter(input, output) ==
  [status |-> "ok", input |-> output, output |-> input, log |-> <<>>]

FilterUnfilter(filter, input, output) ==
  IF filter.kind = "EmptyFilter" THEN EmptyUnfilter(input, output)
  ELSE GZipUnfilter(input, output)

(***************************************************************************)
(* array -- ArrayType and Layout from their bytes                          *)
(***************************************************************************)
ArrayTypeFromU8(orig) ==
  CASE orig = 0 -> "Dense" [] orig = 1 -> "Sparse" [] OTHER -> "Invalid"

LayoutFromU8(orig) ==
  CASE orig = 0 -> "RowMajor"
    [] orig = 1 -> "ColMajor"
    [] orig = 2 -> "GlobalOrder"
    [] orig = 3 -> "Unordered"
    [] orig = 4 -> "Hilbert"
    [] OTHER -> "Invalid"

(***************************************************************************)
(* storage::schema -- ArraySchema, its fields in declaration order up to   *)
(* the domain                                                              *)
(***************************************************************************)
CURRENT_FORMAT_VERSION == 21

SchemaFields ==
  <<"version", "allows_dups", "array_type", "tile_order", "cell_order",
    "capacity", "coords_filters", "cell_var_filters",
    "cell_validity_filters">>

\* A field that was read and then failed its assertion.
Reject(val, pos) == [ok |-> FALSE, err |-> "assert", val |-> val, pos |-> pos]

Asserted(r, holds) == IF r.ok /\ ~holds THEN Reject(r.val, r.pos) ELSE r

Mapped(r, val) == IF r.ok THEN [ok |-> TRUE, val |-> val, pos |-> r.pos] ELSE r

Absent(val, pos) == [ok |-> TRUE, val |-> val, pos |-> pos]

DefaultFilterList == [max_chunk_size |-> 0, num_filters |-> 0, filters |-> <<>>]

\* the assertion of ArraySchema::version, accepting every version
VersionAssertNone(version) == TRUE

\* #[br(assert(version <= storage::CURRENT_FORMAT_VERSION, ...))]
VersionAssert(version) == version <= CURRENT_FORMAT_VERSION

\* ReadSchemaField with cell_validity_filters gated at version 6
ReadSchemaFieldValidityAtV6(name, s, pos, version) ==
  CASE name = "version" ->
         With(ReadInt(s, pos, 4), LAMBDA r :
           Asserted(r, r.ok /\ VersionAssert(r.val)))
    [] name = "allows_dups" ->
         IF version >= 5 THEN ReadInt(s, pos, 1) ELSE Absent(0, pos)
    [] name = "array_type" ->
         With(ReadInt(s, pos, 1), LAMBDA r :
         With(Mapped(r, IF r.ok THEN ArrayTypeFromU8(r.val) ELSE ""), LAMBDA m :
           Asserted(m, m.ok /\ m.val # "Invalid")))
    [] name \in {"tile_order", "cell_order"} ->
         With(ReadInt(s, pos, 1), LAMBDA r :
         With(Mapped(r, IF r.ok THEN LayoutFromU8(r.val) ELSE ""), LAMBDA m :
           Asserted(m, m.ok /\ m.val # "Invalid")))
    [] name = "capacity" -> ReadInt(s, pos, 8)
    [] name \in {"coords_filters", "cell_var_filters"} ->
         ReadFilterList(s, pos, version)
    [] name = "cell_validity_filters" ->
         IF version >= 6 THEN ReadFilterList(s, pos, version)
         ELSE Absent(DefaultFilterList, pos)

ReadSchemaField(name, s, pos, version) ==
  CASE name = "version" ->
         With(ReadInt(s, pos, 4), LAMBDA r :
           Asserted(r, r.ok /\ VersionAssert(r.val)))
    [] name = "allows_dups" ->
         IF version >= 5 THEN ReadInt(s, pos, 1) ELSE Absent(0, pos)
    [] name = "array_type" ->
         With(ReadInt(s, pos, 1), LAMBDA r :
         With(Mapped(r, IF r.ok THEN ArrayTypeFromU8(r.val) ELSE ""), LAMBDA m :
           Asserted(m, m.ok /\ m.val # "Invalid")))
    [] name \in {"tile_order", "cell_order"} ->
         With(ReadInt(s, pos, 1), LAMBDA r :
         With(Mapped(r, IF r.ok THEN LayoutFromU8(r.val) ELSE ""), LAMBDA m :
           Asserted(m, m.ok /\ m.val # "Invalid")))
    [] name = "capacity" -> ReadInt(s, pos, 8)
    [] name \in {"coords_filters", "cell_var_filters"} ->
         ReadFilterList(s, pos, version)
    [] name = "cell_validity_filters" ->
         IF version >= 7 THEN ReadFilterList(s, pos, version)
         ELSE Absent(DefaultFilterList, pos)

(***************************************************************************)
(* String::from_utf8 -- the validity check on the bytes of a name          *)
(***************************************************************************)
IsContinuation(b) == b >= 128 /\ b <= 191

\* The number of bytes of the well-formed sequence starting at b[i], 0 when
\* there is none.
Utf8Width(b, i) ==
  CASE b[i] < 128 -> 1
    [] b[i] >= 194 /\ b[i] <= 223 ->
         IF i + 1 <= Len(b) /\ IsContinuation(b[i + 1]) THEN 2 ELSE 0
    [] b[i] >= 224 /\ b[i] <= 239 ->
         IF /\ i + 2 <= Len(b)
            /\ IsContinuation(b[i + 1]) /\ IsContinuation(b[i + 2])
            /\ (b[i] = 224 => b[i + 1] >= 160)
            /\ (b[i] = 237 => b[i + 1] <= 159)
         THEN 3 ELSE 0
    [] b[i] >= 240 /\ b[i] <= 244 ->
         IF /\ i + 3 <= Len(b)
            /\ IsContinuation(b[i + 1]) /\ IsContinuation(b[i + 2])
            /\ IsContinuation(b[i + 3])
            /\ (b[i] = 240 => b[i + 1] >= 144)
            /\ (b[i] = 244 => b[i + 1] <= 143)
         THEN 4 ELSE 0
    [] OTHER -> 0

RECURSIVE Utf8From(_, _)
Utf8From(b, i) ==
  IF i > Len(b) THEN TRUE
  ELSE With(Utf8Width(b, i), LAMBDA w :
         IF w = 0 THEN FALSE ELSE Utf8From(b, i + w))

IsUtf8(b) == Utf8From(b, 1)

(***************************************************************************)
(* array::DataOrder and datatype::DataType                                 *)
(***************************************************************************)
\* DataOrderFromU8 taking the byte modulo the number of variants
DataOrderFromU8Wrapped(orig) ==
  CASE orig % 3 = 0 -> "Unordered"
    [] orig % 3 = 1 -> "Increasing"
    [] OTHER -> "Decreasing"

DataOrderFromU8(orig) ==
  CASE orig = 0 -> "Unordered"
    [] orig = 1 -> "Increasing"
    [] orig = 2 -> "Decreasing"
    [] OTHER -> "Invalid"

DataTypeNames ==
  <<"Int32", "Int64", "Float32", "Float64", "Char", "Int8", "Uint8", "Int16",
    "Uint16", "Uint32", "Uint64", "StringAscii", "StringUtf8", "StringUtf16",
    "StringUtf32", "StringUcs2", "StringUcs4", "Any", "DatetimeYear",
    "DatetimeMonth", "DatetimeWeek", "DatetimeDay", "DatetimeHour",
    "DatetimeMin", "DatetimeSec", "DatetimeMSec", "DatetimeUSec",
    "DatetimeNSec", "DatetimePSec", "DatetimeFSec", "DatetimeASec",
    "TimeHour", "TimeMin", "TimeSec", "TimeMSec", "TimeUSec", "TimeNSec",
    "TimePSec", "TimeFSec", "TimeASec", "Blob", "Bool">>

DataTypeFromU8(orig) ==
  IF orig < Len(DataTypeNames) THEN DataTypeNames[orig + 1] ELSE "Invalid"

\* The discriminants of the #[repr(u8)] enums, which `as u8` yields.
ArrayTypeAsU8(atype) ==
  CASE atype = "Dense" -> 0 [] atype = "Sparse" -> 1 [] atype = "Invalid" -> 255

LayoutAsU8(layout) ==
  CASE layout = "RowMajor" -> 0
    [] layout = "ColMajor" -> 1
    [] layout = "GlobalOrder" -> 2
    [] layout = "Unordered" -> 3
    [] layout = "Hilbert" -> 4
    [] layout = "Invalid" -> 255

DataOrderAsU8(order) ==
  CASE order = "Unordered" -> 0
    [] order = "Increasing" -> 1
    [] order = "Decreasing" -> 2
    [] order = "Invalid" -> 255

DataTypeDiscriminants ==
  [Int32 |-> 0, Int64 |-> 1, Float32 |-> 2, Float64 |-> 3, Char |-> 4,
   Int8 |-> 5, Uint8 |-> 6, Int16 |-> 7, Uint16 |-> 8, Uint32 |-> 9,
   Uint64 |-> 10, StringAscii |-> 11, StringUtf8 |-> 12,
   StringUtf16 |-> 13, StringUtf32 |-> 14, StringUcs2 |-> 15,
   StringUcs4 |-> 16, Any |-> 17, DatetimeYear |-> 18,
   DatetimeMonth |-> 19, DatetimeWeek |-> 20, DatetimeDay |-> 21,
   DatetimeHour |-> 22, DatetimeMin |-> 23, DatetimeSec |-> 24,
   DatetimeMSec |-> 25, DatetimeUSec |-> 26, DatetimeNSec |-> 27,
   DatetimePSec |-> 28, DatetimeFSec |-> 29, DatetimeASec |-> 30,
   TimeHour |-> 31, TimeMin |-> 32, TimeSec |-> 33, TimeMSec |-> 34,
   TimeUSec |-> 35, TimeNSec |-> 36, TimePSec |-> 37, TimeFSec |-> 38,
   TimeASec |-> 39, Blob |-> 40, Bool |-> 41, Invalid |-> 255]

DataTypeAsU8(dtype) == DataTypeDiscriminants[dtype]

\* DataType::size; size_of::<char>() is 4
DataTypeSize(dtype) ==
  CASE dtype \in {"Int8", "Uint8", "StringUtf8", "Any", "Blob", "Bool"} -> 1
    [] dtype \in {"Int16", "Uint16", "StringUtf16", "StringUcs2"} -> 2
    [] dtype \in {"Int32", "Float32", "Char", "Uint32", "StringAscii",
                  "StringUtf32", "StringUcs4"} -> 4
    [] dtype = "Invalid" -> 0
    [] OTHER -> 8

is_string_type(dtype) ==
  dtype \in {"StringAscii", "StringUtf8", "StringUtf16", "StringUtf32",
             "StringUcs2", "StringUcs4"}

\* u32::MAX; every u32 of 2^24 and above is read as Huge
CELL_VAR_SIZE == Huge

cell_val_size(dtype) == IF is_string_type(dtype) THEN CELL_VAR_SIZE ELSE 1

\* A field binrw reads with no args directive gets Default::default() of its
\* argument type; for (version: u32) that is version 0.
DefaultArgsVersion == 0

\* data_type without its assertion
ReadDataTypeNoAssert(s, pos) ==
  With(ReadInt(s, pos, 1), LAMBDA r :
    Mapped(r, IF r.ok THEN DataTypeFromU8(r.val) ELSE ""))

\* #[br(map = |dtype: u8| dtype.into())] with
\* #[brw(assert(!matches!(data_type, DataType::Invalid)))]
ReadDataType(s, pos) ==
  With(ReadInt(s, pos, 1), LAMBDA r :
  With(Mapped(r, IF r.ok THEN DataTypeFromU8(r.val) ELSE ""), LAMBDA m :
    Asserted(m, m.ok /\ m.val # "Invalid")))

ReadDataOrder(s, pos) ==
  With(ReadInt(s, pos, 1), LAMBDA r :
  With(Mapped(r, IF r.ok THEN DataOrderFromU8(r.val) ELSE ""), LAMBDA m :
    Asserted(m, m.ok /\ m.val # "Invalid")))

(***************************************************************************)
(* storage::schema -- Domain, Dimension, Attribute, DimensionLabel and the *)
(* enumeration map.  `wire` holds the bytes each gated field took.         *)
(***************************************************************************)
\* Dimension reading its own triple at every version
ReadDimensionOwnTriple(s, pos, version, dtype, coords_filters) ==
  With(ReadInt(s, pos, 4), LAMBDA ns :
  IF ~ns.ok THEN ns ELSE
  With(ReadBytes(s, ns.pos, ns.val), LAMBDA nm :
  IF ~nm.ok THEN nm ELSE
  With(ReadDataType(s, nm.pos), LAMBDA dt :
  IF ~dt.ok THEN dt ELSE
  With(ReadInt(s, dt.pos, 4), LAMBDA cv :
  IF ~cv.ok THEN cv ELSE
  With(ReadFilterList(s, cv.pos, DefaultArgsVersion), LAMBDA cf :
  IF ~cf.ok THEN cf ELSE
  With(IF version >= 5 THEN ReadInt(s, cf.pos, 8)
       ELSE Absent(2 * DataTypeSize(dt.val), cf.pos), LAMBDA dsz :
  IF ~dsz.ok THEN dsz ELSE
  With(ReadBytes(s, dsz.pos, dsz.val), LAMBDA rg :
  IF ~rg.ok THEN rg ELSE
  With(ReadInt(s, rg.pos, 1), LAMBDA nte :
  IF ~nte.ok THEN nte ELSE
  With(IF nte.val = 0 THEN ReadBytes(s, nte.pos, DataTypeSize(dt.val))
       ELSE Absent(<<>>, nte.pos), LAMBDA te :
  IF ~te.ok THEN te ELSE
  [ok |-> TRUE, pos |-> te.pos,
   val |-> [name |-> nm.val, data_type |-> dt.val, cell_val_num |-> cv.val,
            coords_filters |-> cf.val, domain_size |-> dsz.val,
            range |-> rg.val, null_tile_extent |-> nte.val,
            tile_extent |-> te.val,
            wire |-> [data_type |-> dt.pos - nm.pos,
                      cell_val_num |-> cv.pos - dt.pos,
                      coords_filters |-> cf.pos - cv.pos]]])))))))))

\* storage::schema::Dimension
ReadDimension(s, pos, version, dtype, coords_filters) ==
  With(ReadInt(s, pos, 4), LAMBDA ns :
  IF ~ns.ok THEN ns ELSE
  With(ReadBytes(s, ns.pos, ns.val), LAMBDA nm :
  IF ~nm.ok THEN nm ELSE
  With(IF version >= 5 THEN ReadDataType(s, nm.pos)
       ELSE Absent(dtype, nm.pos), LAMBDA dt :
  IF ~dt.ok THEN dt ELSE
  With(IF version >= 5 THEN ReadInt(s, dt.pos, 4)
       ELSE Absent(cell_val_size(dtype), dt.pos), LAMBDA cv :
  IF ~cv.ok THEN cv ELSE
  With(IF version >= 5 THEN ReadFilterList(s, cv.pos, DefaultArgsVersion)
       ELSE Absent(coords_filters, cv.pos), LAMBDA cf :
  IF ~cf.ok THEN cf ELSE
  With(IF version >= 5 THEN ReadInt(s, cf.pos, 8)
       ELSE Absent(2 * DataTypeSize(dt.val), cf.pos), LAMBDA dsz :
  IF ~dsz.ok THEN dsz ELSE
  With(ReadBytes(s, dsz.pos, dsz.val), LAMBDA rg :
  IF ~rg.ok THEN rg ELSE
  With(ReadInt(s, rg.pos, 1), LAMBDA nte :
  IF ~nte.ok THEN nte ELSE
  With(IF nte.val = 0 THEN ReadBytes(s, nte.pos, DataTypeSize(dt.val))
       ELSE Absent(<<>>, nte.pos), LAMBDA te :
  IF ~te.ok THEN te ELSE
  [ok |-> TRUE, pos |-> te.pos,
   val |-> [name |-> nm.val, data_type |-> dt.val, cell_val_num |-> cv.val,
            coords_filters |-> cf.val, domain_size |-> dsz.val,
            range |-> rg.val, null_tile_extent |-> nte.val,
            tile_extent |-> te.val,
            wire |-> [data_type |-> dt.pos - nm.pos,
                      cell_val_num |-> cv.pos - dt.pos,
                      coords_filters |-> cf.pos - cv.pos]]])))))))))

RECURSIVE ReadDimensions(_, _, _, _, _, _, _)
ReadDimensions(s, pos, version, dtype, coords_filters, count, acc) ==
  IF count = 0 THEN [ok |-> TRUE, pos |-> pos, val |-> acc]
  ELSE With(ReadDimension(s, pos, version, dtype, coords_filters), LAMBDA one :
         IF ~one.ok THEN one
         ELSE With(Append(acc, one.val), LAMBDA acc2 :
                ReadDimensions(s, one.pos, version, dtype, coords_filters,
                               count - 1, acc2)))

\* storage::schema::Domain
ReadDomain(s, pos, version, coords_filters) ==
  With(IF version < 5 THEN ReadDataType(s, pos) ELSE Absent("Int32", pos),
       LAMBDA dt :
  IF ~dt.ok THEN dt ELSE
  With(ReadInt(s, dt.pos, 4), LAMBDA nd :
  IF ~nd.ok THEN nd ELSE
  With(ReadDimensions(s, nd.pos, version, dt.val, coords_filters, nd.val, <<>>),
       LAMBDA ds :
  IF ~ds.ok THEN ds ELSE
  [ok |-> TRUE, pos |-> ds.pos,
   val |-> [data_type |-> dt.val, num_dimensions |-> nd.val,
            dimensions |-> ds.val,
            wire |-> [data_type |-> dt.pos - pos]]])))

\* storage::schema::Attribute; the map of `name` unwraps String::from_utf8
ReadAttribute(s, pos, version) ==
  With(ReadInt(s, pos, 4), LAMBDA ns :
  IF ~ns.ok THEN ns ELSE
  With(ReadBytes(s, ns.pos, ns.val), LAMBDA nm :
  IF ~nm.ok THEN nm ELSE
  IF ~IsUtf8(nm.val) THEN Fail("panic") ELSE
  With(ReadDataType(s, nm.pos), LAMBDA dt :
  IF ~dt.ok THEN dt ELSE
  With(ReadInt(s, dt.pos, 4), LAMBDA cv :
  IF ~cv.ok THEN cv ELSE
  With(ReadFilterList(s, cv.pos, version), LAMBDA fl :
  IF ~fl.ok THEN fl ELSE
  With(IF version >= 6 THEN ReadInt(s, fl.pos, 8) ELSE Absent(0, fl.pos),
       LAMBDA fs :
  IF ~fs.ok THEN fs ELSE
  With(ReadBytes(s, fs.pos, fs.val), LAMBDA fv :
  IF ~fv.ok THEN fv ELSE
  With(IF version >= 7 THEN ReadInt(s, fv.pos, 1) ELSE Absent(0, fv.pos),
       LAMBDA nu :
  IF ~nu.ok THEN nu ELSE
  With(IF version >= 7 THEN ReadInt(s, nu.pos, 1) ELSE Absent(0, nu.pos),
       LAMBDA vv :
  IF ~vv.ok THEN vv ELSE
  With(IF version >= 17 THEN ReadDataOrder(s, vv.pos)
       ELSE Absent("Unordered", vv.pos), LAMBDA ord :
  IF ~ord.ok THEN ord ELSE
  With(IF version >= 20 THEN ReadInt(s, ord.pos, 4) ELSE Absent(0, ord.pos),
       LAMBDA el :
  IF ~el.ok THEN el ELSE
  With(ReadBytes(s, el.pos, el.val), LAMBDA en :
  IF ~en.ok THEN en ELSE
  [ok |-> TRUE, pos |-> en.pos,
   val |-> [name |-> nm.val, data_type |-> dt.val, cell_val_num |-> cv.val,
            filters |-> fl.val, fill_value |-> fv.val, nullable |-> nu.val,
            fill_value_validity |-> vv.val, data_order |-> ord.val,
            enumeration_name |-> en.val,
            wire |-> [nullable |-> nu.pos - fv.pos,
                      fill_value_validity |-> vv.pos - nu.pos,
                      data_order |-> ord.pos - vv.pos,
                      enumeration_name |-> en.pos - ord.pos]]]))))))))))))

RECURSIVE ReadAttributes(_, _, _, _, _)
ReadAttributes(s, pos, version, count, acc) ==
  IF count = 0 THEN [ok |-> TRUE, pos |-> pos, val |-> acc]
  ELSE With(ReadAttribute(s, pos, version), LAMBDA one :
         IF ~one.ok THEN one
         ELSE With(Append(acc, one.val), LAMBDA acc2 :
                ReadAttributes(s, one.pos, version, count - 1, acc2)))

\* storage::schema::DimensionLabel
ReadDimensionLabel(s, pos) ==
  With(ReadInt(s, pos, 4), LAMBDA id :
  IF ~id.ok THEN id ELSE
  With(ReadInt(s, id.pos, 4), LAMBDA nl :
  IF ~nl.ok THEN nl ELSE
  With(ReadBytes(s, nl.pos, nl.val), LAMBDA nm :
  IF ~nm.ok THEN nm ELSE
  With(ReadInt(s, nm.pos, 1), LAMBDA ru :
  IF ~ru.ok THEN ru ELSE
  With(ReadInt(s, ru.pos, 8), LAMBDA us :
  IF ~us.ok THEN us ELSE
  With(ReadBytes(s, us.pos, us.val), LAMBDA uri :
  IF ~uri.ok THEN uri ELSE
  With(ReadInt(s, uri.pos, 4), LAMBDA al :
  IF ~al.ok THEN al ELSE
  With(ReadBytes(s, al.pos, al.val), LAMBDA an :
  IF ~an.ok THEN an ELSE
  With(ReadDataOrder(s, an.pos), LAMBDA ord :
  IF ~ord.ok THEN ord ELSE
  With(ReadDataType(s, ord.pos), LAMBDA dt :
  IF ~dt.ok THEN dt ELSE
  With(ReadInt(s, dt.pos, 4), LAMBDA cv :
  IF ~cv.ok THEN cv ELSE
  With(ReadInt(s, cv.pos, 1), LAMBDA ext :
  IF ~ext.ok THEN ext ELSE
  [ok |-> TRUE, pos |-> ext.pos,
   val |-> [dimension_id |-> id.val, name |-> nm.val,
            relative_uri |-> ru.val, uri |-> uri.val,
            attribute_name |-> an.val, data_order |-> ord.val,
            data_type |-> dt.val, cell_val_num |-> cv.val,
            is_external |-> ext.val]]))))))))))))

RECURSIVE ReadDimensionLabels(_, _, _, _)
ReadDimensionLabels(s, pos, count, acc) ==
  IF count = 0 THEN [ok |-> TRUE, pos |-> pos, val |-> acc]
  ELSE With(ReadDimensionLabel(s, pos), LAMBDA one :
         IF ~one.ok THEN one
         ELSE With(Append(acc, one.val), LAMBDA acc2 :
                ReadDimensionLabels(s, one.pos, count - 1, acc2)))

\* One {name, path} record of the enumeration map
ReadEnumerationEntry(s, pos) ==
  With(ReadInt(s, pos, 4), LAMBDA ns :
  IF ~ns.ok THEN ns ELSE
  With(ReadBytes(s, ns.pos, ns.val), LAMBDA nm :
  IF ~nm.ok THEN nm ELSE
  IF ~IsUtf8(nm.val) THEN Fail("from_utf8") ELSE
  With(ReadInt(s, nm.pos, 4), LAMBDA ps :
  IF ~ps.ok THEN ps ELSE
  With(ReadBytes(s, ps.pos, ps.val), LAMBDA pa :
  IF ~pa.ok THEN pa ELSE
  IF ~IsUtf8(pa.val) THEN Fail("from_utf8") ELSE
  [ok |-> TRUE, pos |-> pa.pos,
   val |-> [name |-> nm.val, path |-> pa.val]]))))

RECURSIVE ReadEnumerationEntries(_, _, _, _)
ReadEnumerationEntries(s, pos, count, acc) ==
  IF count = 0 THEN [ok |-> TRUE, pos |-> pos, val |-> acc]
  ELSE With(ReadEnumerationEntry(s, pos), LAMBDA one :
         IF ~one.ok THEN one
         ELSE With(Append(acc, one.val), LAMBDA acc2 :
                ReadEnumerationEntries(s, one.pos, count - 1, acc2)))

\* fn enumeration_name_map_parser(version); the map is kept as the sequence
\* of its entries
enumeration_name_map_parser(s, pos, version) ==
  IF version < 20 THEN Absent(<<>>, pos)
  ELSE With(ReadInt(s, pos, 4), LAMBDA ne :
         IF ~ne.ok THEN ne
         ELSE ReadEnumerationEntries(s, ne.pos, ne.val, <<>>))

\* ArraySchema from the domain on, in declaration order
SchemaBody ==
  <<"domain", "num_attributes", "attributes", "num_dimension_labels",
    "dimension_labels", "enumeration_map">>

\* The value of field `name` among the fields read so far.
FieldAt(fs, name) == CHOOSE i \in 1..Len(fs) : fs[i].name = name

ReadSchemaBodyField(name, s, pos, version, fs) ==
  CASE name = "domain" ->
         ReadDomain(s, pos, version, fs[FieldAt(fs, "coords_filters")].val)
    [] name = "num_attributes" -> ReadInt(s, pos, 4)
    [] name = "attributes" ->
         ReadAttributes(s, pos, version,
                        fs[FieldAt(fs, "num_attributes")].val, <<>>)
    [] name = "num_dimension_labels" ->
         IF version >= 18 THEN ReadInt(s, pos, 4) ELSE Absent(0, pos)
    [] name = "dimension_labels" ->
         ReadDimensionLabels(s, pos,
                             fs[FieldAt(fs, "num_dimension_labels")].val, <<>>)
    [] name = "enumeration_map" ->
         enumeration_name_map_parser(s, pos, DefaultArgsVersion)

(***************************************************************************)
(* storage::schema, storage::filter -- the derived writers.  The `if`,     *)
(* `count` and `args` directives are #[br(..)], read-only: a writer emits  *)
(* every field of the struct, in declaration order.                        *)
(***************************************************************************)
\* An unsigned field of w bytes; Huge stands for the all-ones value.
WriteInt(n, w) == IF n = Huge THEN [i \in 1..w |-> 255] ELSE LEBytes(n, w)

\* An i32 field, two's complement
WriteI32(n) ==
  IF n >= 0 THEN LEBytes(n, 4)
  ELSE [i \in 1..4 |-> 255 - ((((-n) - 1) \div (256 ^ (i - 1))) % 256)]

WriteFilterConfig(config) ==
  CASE config.shape = "Compression" ->
         <<FilterTypeAsU8(config.compressor_type)>>
         \o WriteI32(config.compression_level)
         \o <<config.reinterpret_type>>
    [] config.shape = "None" -> <<>>
    [] OTHER -> config.raw

WriteFilter(f) ==
  <<FilterTypeAsU8(f.filter_type)>> \o WriteInt(f.metadata_len, 4)
  \o WriteFilterConfig(f.config)

WriteFilterList(fl) ==
  WriteInt(fl.max_chunk_size, 4) \o WriteInt(fl.num_filters, 4)
  \o Flatten([i \in 1..Len(fl.filters) |-> WriteFilter(fl.filters[i])])

WriteDimension(dim) ==
  WriteInt(Len(dim.name), 4) \o dim.name
  \o <<DataTypeAsU8(dim.data_type)>> \o WriteInt(dim.cell_val_num, 4)
  \o WriteFilterList(dim.coords_filters)
  \o WriteInt(dim.domain_size, 8) \o dim.range
  \o <<dim.null_tile_extent>> \o dim.tile_extent

WriteDomain(domain) ==
  <<DataTypeAsU8(domain.data_type)>> \o WriteInt(domain.num_dimensions, 4)
  \o Flatten([i \in 1..Len(domain.dimensions) |->
                WriteDimension(domain.dimensions[i])])

WriteAttribute(attr) ==
  WriteInt(Len(attr.name), 4) \o attr.name
  \o <<DataTypeAsU8(attr.data_type)>> \o WriteInt(attr.cell_val_num, 4)
  \o WriteFilterList(attr.filters)
  \o WriteInt(Len(attr.fill_value), 8) \o attr.fill_value
  \o <<attr.nullable, attr.fill_value_validity,
       DataOrderAsU8(attr.data_order)>>
  \o WriteInt(Len(attr.enumeration_name), 4) \o attr.enumeration_name

WriteDimensionLabel(dl) ==
  WriteInt(dl.dimension_id, 4)
  \o WriteInt(Len(dl.name), 4) \o dl.name
  \o <<dl.relative_uri>>
  \o WriteInt(Len(dl.uri), 8) \o dl.uri
  \o WriteInt(Len(dl.attribute_name), 4) \o dl.attribute_name
  \o <<DataOrderAsU8(dl.data_order), DataTypeAsU8(dl.data_type)>>
  \o WriteInt(dl.cell_val_num, 4) \o <<dl.is_external>>

\* fn enumeration_name_map_writer; the map is the sequence of its entries
enumeration_name_map_writer(map) ==
  WriteInt(Len(map), 4)
  \o Flatten([i \in 1..Len(map) |->
                WriteInt(Len(map[i].name), 4) \o map[i].name
                \o WriteInt(Len(map[i].path), 4) \o map[i].path])

\* The writer of one field of ArraySchema
WriteSchemaField(name, val) ==
  CASE name \in {"version", "num_attributes", "num_dimension_labels"} ->
         WriteInt(val, 4)
    [] name = "allows_dups" -> <<val>>
    [] name = "array_type" -> <<ArrayTypeAsU8(val)>>
    [] name \in {"tile_order", "cell_order"} -> <<LayoutAsU8(val)>>
    [] name = "capacity" -> WriteInt(val, 8)
    [] name \in {"coords_filters", "cell_var_filters",
                 "cell_validity_filters"} -> WriteFilterList(val)
    [] name = "domain" -> WriteDomain(val)
    [] name = "attributes" ->
         Flatten([i \in 1..Len(val) |-> WriteAttribute(val[i])])
    [] name = "dimension_labels" ->
         Flatten([i \in 1..Len(val) |-> WriteDimensionLabel(val[i])])
    [] name = "enumeration_map" -> enumeration_name_map_writer(val)

\* ArraySchema::write over a decoded schema
WriteArraySchema(fs) ==
  Flatten([i \in 1..Len(fs) |-> WriteSchemaField(fs[i].name, fs[i].val)])

(***************************************************************************)
(* filters -- construction of executable filters and of the chain          *)
(***************************************************************************)
\* GZipFilter::from_config
GZipFromConfig(config) ==
  IF config.shape = "Compression"
  THEN [status |-> "ok",
        val |-> [kind |-> "GZipFilter",
                 level |-> IF config.compression_level >= 0
                           THEN (IF config.compression_level < 10
                                 THEN config.compression_level ELSE 10)
                           ELSE 6]]
  ELSE [status |-> "panic", ftype |-> "GZip"]

\* fn create_filter: panics on every kind but None and GZip
create_filter(filter) ==
  CASE filter.filter_type = "None" ->
         [status |-> "ok", val |-> [kind |-> "EmptyFilter", level |-> 0]]
    [] filter.filter_type = "GZip" -> GZipFromConfig(filter.config)
    [] OTHER -> [status |-> "panic", ftype |-> filter.filter_type]

\* impl TryFrom<&storage::Filter> for Box<dyn Filter>
TryFromFilter(f) ==
  CASE f.filter_type = "None" ->
         [status |-> "ok", val |-> [kind |-> "EmptyFilter", level |-> 0]]
    [] f.filter_type = "GZip" -> GZipFromConfig(f.config)
    [] OTHER -> [status |-> "err", ftype |-> f.filter_type]

\* A chain is the sequence of its links' filters, head first; <<>> is None.
\* FilterChain::from_list: fold over the reversed list, each new link put
\* in front of the chain built so far.
RECURSIVE FromListFoldAppend(_, _, _)
FromListFoldAppend(filters, i, acc) ==
  IF i = 0 THEN [status |-> "ok", chain |-> acc, ftype |-> ""]
  ELSE With(create_filter(filters[i]), LAMBDA f :
         IF f.status # "ok"
         THEN [status |-> f.status, chain |-> <<>>, ftype |-> f.ftype]
         ELSE With(acc \o <<f.val>>, LAMBDA acc2 :
                FromListFoldAppend(filters, i - 1, acc2)))

RECURSIVE FromListFold(_, _, _)
FromListFold(filters, i, acc) ==
  IF i = 0 THEN [status |-> "ok", chain |-> acc, ftype |-> ""]
  ELSE With(create_filter(filters[i]), LAMBDA f :
         IF f.status # "ok"
         THEN [status |-> f.status, chain |-> <<>>, ftype |-> f.ftype]
         ELSE With(<<f.val>> \o acc, LAMBDA acc2 :
                FromListFold(filters, i - 1, acc2)))

\* from_list handing back a one-link chain for an empty list
from_list_default(filters) ==
  With(FromListFold(filters, Len(filters), <<>>), LAMBDA r :
    IF r.status = "ok" /\ r.chain = <<>>
    THEN [status |-> "ok", chain |-> <<[kind |-> "EmptyFilter", level |-> 0]>>,
          ftype |-> ""]
    ELSE r)

from_list(filters) ==
  With(FromListFold(filters, Len(filters), <<>>), LAMBDA r :
    IF r.status = "ok" /\ r.chain = <<>>
    THEN [status |-> "panic", chain |-> <<>>, ftype |-> ""]
    ELSE r)

\* impl TryFrom<&storage::FilterList> for Box<FilterChain>: the link built
\* in the loop body is dropped and `chain` is never assigned.
RECURSIVE TryFromLoop(_, _, _)
TryFromLoop(filters, i, chain) ==
  IF i = 0 THEN [status |-> "ok", chain |-> chain, ftype |-> ""]
  ELSE With(TryFromFilter(filters[i]), LAMBDA converted :
         IF converted.status # "ok"
         THEN [status |-> converted.status, chain |-> <<>>,
               ftype |-> converted.ftype]
         ELSE TryFromLoop(filters, i - 1, chain))

TryFromList(filters) ==
  With(TryFromLoop(filters, Len(filters), <<>>), LAMBDA r :
    IF r.status = "ok" /\ r.chain = <<>>
    THEN [status |-> "err", chain |-> <<>>, ftype |-> ""]
    ELSE r)

(***************************************************************************)
(* array::schema -- the in-memory schema made from the decoded one.  Each  *)
(* conversion is [status, at, val]: `at` names the field that failed.      *)
(***************************************************************************)
Converted(val) == [status |-> "ok", at |-> "", val |-> val]

NotConverted(at) == [status |-> "err", at |-> at, val |-> <<>>]

\* io::uri::URI::from_string on a relative name: rejected when the text
\* has a query ('?') or a fragment ('#')
URIFromString(text) ==
  IF \E i \in 1..Len(text) : text[i] \in {35, 63}
  THEN NotConverted("uri") ELSE Converted(text)

\* impl TryFrom<&storage::schema::Dimension> for Dimension
TryFromDimension(storage) ==
  IF ~IsUtf8(storage.name) THEN NotConverted("dimension.name") ELSE
  With(TryFromList(storage.coords_filters.filters), LAMBDA filters :
  IF filters.status # "ok" THEN NotConverted("dimension.filters") ELSE
  Converted([name |-> storage.name, data_type |-> storage.data_type,
             cell_val_num |-> storage.cell_val_num,
             filters |-> filters.chain, range |-> storage.range,
             extent |-> storage.tile_extent]))

\* impl TryFrom<&storage::schema::Attribute> for Attribute
TryFromAttribute(storage) ==
  With(TryFromList(storage.filters.filters), LAMBDA filters :
  IF filters.status # "ok" THEN NotConverted("attribute.filters") ELSE
  IF ~IsUtf8(storage.enumeration_name)
  THEN NotConverted("attribute.enumeration_name") ELSE
  Converted([name |-> storage.name, data_type |-> storage.data_type,
             cell_val_num |-> storage.cell_val_num,
             filters |-> filters.chain, fill_value |-> storage.fill_value,
             nullable |-> storage.nullable # 0,
             fill_value_validity |-> storage.fill_value_validity # 0,
             data_order |-> storage.data_order,
             enumeration_name |-> storage.enumeration_name]))

\* impl TryFrom<&storage::schema::DimensionLabel> for DimensionLabel
TryFromDimensionLabel(storage) ==
  IF ~IsUtf8(storage.name) THEN NotConverted("dimension_label.name") ELSE
  IF ~IsUtf8(storage.uri) THEN NotConverted("dimension_label.uri") ELSE
  With(URIFromString(storage.uri), LAMBDA uri :
  IF uri.status # "ok" THEN NotConverted("dimension_label.uri") ELSE
  IF ~IsUtf8(storage.attribute_name)
  THEN NotConverted("dimension_label.attribute_name") ELSE
  Converted([dimension_idx |-> storage.dimension_id, name |-> storage.name,
             relative_uri |-> storage.relative_uri # 0, uri |-> uri.val,
             attribute_name |-> storage.attribute_name,
             data_order |-> storage.data_order,
             data_type |-> storage.data_type,
             cell_val_num |-> storage.cell_val_num,
             is_external |-> storage.is_external # 0]))

\* The `for ... push(try_from(x)?)` loops: the items converted in order,
\* the first failure returned.  kind is "dimension", "attribute" or
\* "dimension_label".
TryFromItem(kind, item) ==
  CASE kind = "dimension" -> TryFromDimension(item)
    [] kind = "attribute" -> TryFromAttribute(item)
    [] kind = "dimension_label" -> TryFromDimensionLabel(item)

RECURSIVE TryFromEach(_, _, _, _)
TryFromEach(kind, items, i, acc) ==
  IF i > Len(items) THEN Converted(acc)
  ELSE With(TryFromItem(kind, items[i]), LAMBDA one :
         IF one.status # "ok" THEN one
         ELSE With(Append(acc, one.val), LAMBDA acc2 :
                TryFromEach(kind, items, i + 1, acc2)))

\* impl TryFrom<&storage::schema::Domain> for Domain
TryFromDomain(storage) ==
  TryFromEach("dimension", storage.dimensions, 1, <<>>)

\* impl TryFrom<storage::schema::ArraySchema> for ArraySchema; fs is the
\* decoded schema as the sequence of its fields.
TryFromArraySchema(fs) ==
  With(TryFromEach("attribute", fs[FieldAt(fs, "attributes")].val, 1, <<>>),
       LAMBDA attrs :
  IF attrs.status # "ok" THEN attrs ELSE
  With(TryFromEach("dimension_label",
                   fs[FieldAt(fs, "dimension_labels")].val, 1, <<>>),
       LAMBDA dim_labels :
  IF dim_labels.status # "ok" THEN dim_labels ELSE
  With(TryFromList(fs[FieldAt(fs, "cell_var_filters")].val.filters),
       LAMBDA cell_var_filters :
  IF cell_var_filters.status # "ok" THEN NotConverted("cell_var_filters") ELSE
  With(TryFromList(fs[FieldAt(fs, "cell_validity_filters")].val.filters),
       LAMBDA cell_validity_filters :
  IF cell_validity_filters.status # "ok"
  THEN NotConverted("cell_validity_filters") ELSE
  With(TryFromDomain(fs[FieldAt(fs, "domain")].val), LAMBDA domain :
  IF domain.status # "ok" THEN domain ELSE
  Converted([version |-> fs[FieldAt(fs, "version")].val,
             allows_dups |-> fs[FieldAt(fs, "allows_dups")].val # 0,
             array_type |-> fs[FieldAt(fs, "array_type")].val,
             tile_order |-> fs[FieldAt(fs, "tile_order")].val,
             cell_order |-> fs[FieldAt(fs, "cell_order")].val,
             capacity |-> fs[FieldAt(fs, "capacity")].val,
             cell_var_filters |-> cell_var_filters.chain,
             cell_validity_filters |-> cell_validity_filters.chain,
             domain |-> domain.val, attributes |-> attrs.val,
             dimension_labels |-> dim_labels.val,
             enumerations |-> fs[FieldAt(fs, "enumeration_map")].val]))))))

\* UnfilterStep without the swap after the successor's return
UnfilterStepNoSwap(chain, k, input, output) ==
  With(FilterUnfilter(chain[k], input, output), LAMBDA r :
  [status |-> r.status, input |-> r.input, output |-> r.output,
   log |-> r.log, given |-> input])

\* FilterChain::unfilter at link k of the chain once its successor has
\* returned Ok: swap the roles unless k is the innermost link, then run
\* the link's own filter.
UnfilterStep(chain, k, input, output) ==
  With(k < Len(chain), LAMBDA swapped :
  With(IF swapped THEN output ELSE input, LAMBDA fin :
  With(IF swapped THEN input ELSE output, LAMBDA fout :
  With(FilterUnfilter(chain[k], fin, fout), LAMBDA r :
  [status |-> r.status, input |-> r.input, output |-> r.output,
   log |-> r.log, given |-> fin]))))

\* CopyChunks taking the scratch chunks last first
RECURSIVE CopyChunksReversed(_, _, _, _, _)
CopyChunksReversed(ins, outs, i, output, output_offset) ==
  IF i > Len(ins) THEN [status |-> "ok", val |-> output]
  ELSE With(output_offset + ins[i].original_size, LAMBDA output_end :
       With(outs[Len(outs) - i + 1].data, LAMBDA piece :
         IF output_end > Len(output) \/ Len(piece) # output_end - output_offset
         THEN [status |-> "panic", val |-> <<>>]
         ELSE With(Splice(output, output_offset, piece), LAMBDA out2 :
                CopyChunksReversed(ins, outs, i + 1, out2, output_end))))

\* FilterChain::unfilter_chunks after the per-chunk loop: size the buffer
\* from the input chunks' original_size and copy each scratch chunk in.
RECURSIVE CopyChunks(_, _, _, _, _)
CopyChunks(ins, outs, i, output, output_offset) ==
  IF i > Len(ins) THEN [status |-> "ok", val |-> output]
  ELSE With(output_offset + ins[i].original_size, LAMBDA output_end :
         IF output_end > Len(output)
            \/ Len(outs[i].data) # output_end - output_offset
         THEN [status |-> "panic", val |-> <<>>]
         ELSE With(Splice(output, output_offset, outs[i].data), LAMBDA out2 :
                CopyChunks(ins, outs, i + 1, out2, output_end)))

ConcatChunks(ins, outs) ==
  With(Sum(ins, "original_size"), LAMBDA output_size :
  With(Zeros(output_size), LAMBDA output :
    CopyChunks(ins, outs, 1, output, 0)))

\* FilterChain::unfilter as a whole: the links from k back to the head.
RECURSIVE FilterChainUnfilter(_, _, _, _)
FilterChainUnfilter(chain, k, input, output) ==
  IF k = 0 THEN [status |-> "ok", input |-> input, output |-> output]
  ELSE With(UnfilterStep(chain, k, input, output), LAMBDA r :
         IF r.status # "ok"
         THEN [status |-> r.status, input |-> r.input, output |-> r.output]
         ELSE FilterChainUnfilter(chain, k - 1, r.input, r.output))

\* FilterChain::unfilter_chunks: the sequential loop over the zipped chunks,
\* ended by the first failure, then the concatenation.
RECURSIVE UnfilterLoop(_, _, _, _)
UnfilterLoop(chain, ins, outs, i) ==
  IF i > Len(ins) THEN ConcatChunks(ins, outs)
  ELSE With(FilterChainUnfilter(chain, Len(chain), ins[i], outs[i]), LAMBDA w :
         IF w.status # "ok" THEN [status |-> w.status, val |-> <<>>]
         ELSE With([ins EXCEPT ![i] = w.input], LAMBDA ins2 :
              With([outs EXCEPT ![i] = w.output], LAMBDA outs2 :
                UnfilterLoop(chain, ins2, outs2, i + 1))))

unfilter_chunks(chain, chunks0) ==
  UnfilterLoop(chain, chunks0, NewChunkedData(Len(chunks0)), 1)

\* PosixVFSService::file_read_vec: a zeroed buffer of nbytes filled by one
\* read_at whose byte count is not looked at.
file_read_vec(file, nbytes, off) ==
  [i \in 1..nbytes |-> IF off + i <= Len(file) THEN file[off + i] ELSE 0]

(***************************************************************************)
(* Stored objects the operations are run on                                *)
(***************************************************************************)
WireConfig(kb, version) ==
  With(FilterTypeFromU8(kb), LAMBDA ftype :
  IF ftype = "Invalid" THEN <<>>
  ELSE IF is_compression_filter(ftype)
       THEN <<kb>> \o LEBytes(6, 4)
            \o (IF has_reinterpret_type(version, ftype) THEN <<3>> ELSE <<>>)
  ELSE IF is_bit_width_reduction_filter(ftype) \/ is_positive_delta_filter(ftype)
       THEN LEBytes(256, 4)
  ELSE IF is_scale_float_filter(ftype) THEN Zeros(24)
  ELSE IF is_webp_filter(ftype) THEN Zeros(10)
  ELSE <<>>)

WireFilter(kb, version) ==
  With(WireConfig(kb, version), LAMBDA cfg :
    <<kb>> \o LEBytes(Len(cfg), 4) \o cfg)

WirePipeline(kbs, version) ==
  With([i \in 1..Len(kbs) |-> WireFilter(kbs[i], version)], LAMBDA fs :
    LEBytes(65536, 4) \o LEBytes(Len(kbs), 4) \o Flatten(fs))

WirePart(p) == LEBytes(p.uncompressed_size, 4) \o LEBytes(p.compressed_size, 4)

WireFraming(mparts, dparts) ==
  With([i \in 1..Len(mparts) |-> WirePart(mparts[i])], LAMBDA ms :
  With([i \in 1..Len(dparts) |-> WirePart(dparts[i])], LAMBDA ds :
    LEBytes(Len(mparts), 4) \o LEBytes(Len(dparts), 4)
    \o Flatten(ms) \o Flatten(ds)))

WireChunk(c) ==
  LEBytes(c.original_size, 4) \o LEBytes(Len(c.data), 4)
  \o LEBytes(Len(c.metadata), 4) \o c.metadata \o c.data

WirePayload(cs) ==
  With([i \in 1..Len(cs) |-> WireChunk(cs[i])], LAMBDA ws :
    LEBytes(Len(cs), 8) \o Flatten(ws))

WireHeader(version, persisted_size, filter_pipeline_size) ==
  LEBytes(version, 4) \o LEBytes(persisted_size, 8) \o LEBytes(persisted_size, 8)
  \o <<14>> \o LEBytes(1, 8) \o <<0>> \o LEBytes(filter_pipeline_size, 4)

WireTile(version, kbs, cs) ==
  With(WirePipeline(kbs, version), LAMBDA pl :
  With(WirePayload(cs), LAMBDA pd :
    WireHeader(version, Len(pd), Len(pl)) \o pl \o pd))

\* What a writer stores for one chunk of logical bytes: each filter of the
\* pipeline applied in order; a compression filter stores its input's
\* metadata and data as one compressed part each.
RawChunk(d) == [original_size |-> Len(d), metadata |-> <<>>, data |-> d]

ForwardGZip(c) ==
  With(IF c.metadata = <<>> THEN <<>>
       ELSE <<[uncompressed_size |-> Len(c.metadata),
               compressed_size |-> Len(compress(c.metadata))]>>, LAMBDA mparts :
  With(<<[uncompressed_size |-> Len(c.data),
          compressed_size |-> Len(compress(c.data))]>>, LAMBDA dparts :
  [original_size |-> c.original_size,
   metadata |-> WireFraming(mparts, dparts),
   data |-> (IF c.metadata = <<>> THEN <<>> ELSE compress(c.metadata))
            \o compress(c.data)]))

RECURSIVE Forward(_, _, _)
Forward(kbs, i, c) ==
  IF i > Len(kbs) THEN c
  ELSE With(IF kbs[i] = 1 THEN ForwardGZip(c) ELSE c, LAMBDA c2 :
         Forward(kbs, i + 1, c2))

Payloads == UNION {[1..n -> {5, 6}] : n \in 0..MaxPayload}

SeqsUpTo(S, n) == UNION {[1..k -> S] : k \in 0..n}

SupportedPipelines == SeqsUpTo({0, 1}, MaxFilters)

\* Well-formed tiles: every chunk written through the pipeline.
GoodTiles ==
  {[version |-> 1, kbs |-> kbs,
    chunks |-> [i \in 1..Len(ds) |-> Forward(kbs, 1, RawChunk(ds[i]))],
    logical |-> Flatten(ds)] :
     kbs \in SupportedPipelines, ds \in SeqsUpTo(Payloads, MaxChunks)}

\* Pipelines holding a descriptor of any kind byte, alone or next to a
\* supported one.
KindTiles ==
  {[version |-> v, kbs |-> kbs, chunks |-> <<RawChunk(<<5>>)>>,
    logical |-> <<5>>] :
     v \in {1, 20},
     kbs \in {<<b>> : b \in 0..255}
             \cup {<<0, b>> : b \in 2..21} \cup {<<b, 1>> : b \in 2..21}}

\* Chunks of a GZip pipeline that were not written by Forward.
Part(u, c) == [uncompressed_size |-> u, compressed_size |-> c]

OddChunks ==
  { \* original_size smaller / larger than the decompressed data
    [original_size |-> 1, metadata |-> WireFraming(<<>>, <<Part(2, 3)>>),
     data |-> compress(<<5, 6>>)],
    [original_size |-> 3, metadata |-> WireFraming(<<>>, <<Part(2, 3)>>),
     data |-> compress(<<5, 6>>)],
    \* output part larger than what the stream holds
    [original_size |-> 3, metadata |-> WireFraming(<<>>, <<Part(3, 3)>>),
     data |-> compress(<<5, 6>>)],
    \* a metadata part and a data part on one input buffer
    [original_size |-> 6,
     metadata |-> WireFraming(<<Part(4, 2)>>, <<Part(6, 3)>>),
     data |-> compress(<<6>>) \o compress(<<5, 6>>)],
    \* two metadata parts and two data parts
    [original_size |-> 3,
     metadata |-> WireFraming(<<Part(1, 2), Part(2, 3)>>,
                              <<Part(1, 2), Part(2, 3)>>),
     data |-> compress(<<5>>) \o compress(<<6, 6>>) \o compress(<<6>>)
              \o compress(<<5, 5>>)],
    \* truncated framing
    [original_size |-> 2,
     metadata |-> SubSeq(WireFraming(<<>>, <<Part(2, 3)>>), 1, 12),
     data |-> compress(<<5, 6>>)],
    [original_size |-> 2, metadata |-> <<>>, data |-> compress(<<5, 6>>)],
    \* compressed_size runs past the chunk's data
    [original_size |-> 2, metadata |-> WireFraming(<<>>, <<Part(2, 4)>>),
     data |-> compress(<<5, 6>>)],
    [original_size |-> 2,
     metadata |-> WireFraming(<<Part(1, 2)>>, <<Part(2, 3)>>),
     data |-> compress(<<5, 6>>)],
    \* the primitive rejects the part
    [original_size |-> 2, metadata |-> WireFraming(<<>>, <<Part(2, 3)>>),
     data |-> <<9, 5, 6>>],
    [original_size |-> 1, metadata |-> WireFraming(<<>>, <<Part(1, 3)>>),
     data |-> compress(<<5, 6>>)] }

OddTiles ==
  {[version |-> 1, kbs |-> kbs, chunks |-> cs, logical |-> <<>>] :
     kbs \in {<<1>>, <<0, 1>>, <<1, 0>>},
     cs \in {<<c>> : c \in OddChunks}
            \cup {<<Forward(<<1>>, 1, RawChunk(<<5>>)), c>> : c \in OddChunks}}

\* The head of a schema blob as a writer of format version v lays it out.
WireSchemaHead(v, array_type, cell_order) ==
  LEBytes(v, 4) \o (IF v >= 5 THEN <<1>> ELSE <<>>)
  \o <<array_type, 0, cell_order>> \o LEBytes(10000, 8)
  \o WirePipeline(<<2>>, v) \o WirePipeline(<<>>, v)
  \o (IF v >= 7 THEN WirePipeline(<<1>>, v) ELSE <<>>)

\* Schema objects: a GZip pipeline over one chunk holding a schema blob.
SchemaTiles ==
  {[version |-> 1, kbs |-> <<1>>,
    chunks |-> <<Forward(<<1>>, 1, RawChunk(WireSchemaHead(v, a, c)))>>,
    logical |-> WireSchemaHead(v, a, c), sv |-> v] :
     v \in 0..MaxVersion, a \in {0, 1, 2}, c \in {1, 4, 5}}

\* A whole schema blob as a writer of format version d.v lays it out: two
\* dimensions, one attribute, and from the versions that have them one
\* dimension label and one enumeration.  d.fault names the one field
\* written with a byte or count a well-formed schema would not have.
WireU32(n) == IF n = CELL_VAR_SIZE THEN <<255, 255, 255, 255>> ELSE LEBytes(n, 4)

Faulty(d, field, good, bad) == IF d.fault = field THEN bad ELSE good

WireSchemaHeadOf(d) ==
  LEBytes(d.v, 4) \o (IF d.v >= 5 THEN <<1>> ELSE <<>>)
  \o <<Faulty(d, "array_type", 1, 2), Faulty(d, "tile_order", 1, 5),
       Faulty(d, "cell_order", 4, 5)>>
  \o LEBytes(10000, 8)
  \o WirePipeline(<<1>>, d.v) \o WirePipeline(<<>>, d.v)
  \o (IF d.v >= 7 THEN WirePipeline(<<1>>, d.v) ELSE <<>>)

WireDimension(d, i, dt, cvn, null_tile_extent) ==
  With(DataTypeSize(DataTypeFromU8(IF d.v >= 5 THEN dt ELSE d.dtype)),
       LAMBDA sz :
    LEBytes(1, 4) \o <<IF i = 2 THEN Faulty(d, "dim_name", 102, 255) ELSE 101>>
    \o (IF d.v >= 5
        THEN <<dt>> \o WireU32(cvn) \o WirePipeline(<<1>>, d.v)
             \o LEBytes(2 * sz, 8)
        ELSE <<>>)
    \o Zeros(2 * sz) \o <<null_tile_extent>>
    \o (IF null_tile_extent = 0 THEN Zeros(sz) ELSE <<>>))

WireDomain(d) ==
  With(cell_val_size(DataTypeFromU8(d.dtype)), LAMBDA cvn :
    (IF d.v < 5 THEN <<Faulty(d, "domain_type", d.dtype, 42)>> ELSE <<>>)
    \o LEBytes(2, 4)
    \o WireDimension(d, 1, d.dtype, Faulty(d, "dim_cvn", cvn, 0), 0)
    \o WireDimension(d, 2, Faulty(d, "dim_type", d.dtype, 42), cvn, 1))

WireAttribute(d) ==
  LEBytes(1, 4) \o <<Faulty(d, "attr_name", 97, 255)>>
  \o <<CASE d.fault = "attr_type" -> 42
         [] d.fault \in {"attr_var", "attr_string_fixed"} -> 12
         [] OTHER -> 0>>
  \o WireU32(CASE d.fault = "attr_cvn" -> 0
               [] d.fault = "attr_var" -> CELL_VAR_SIZE
               [] OTHER -> 1)
  \o WirePipeline(<<1>>, d.v)
  \o (IF d.v >= 6 THEN LEBytes(2, 8) \o <<7, 7>> ELSE <<>>)
  \o (IF d.v >= 7 THEN <<1, 1>> ELSE <<>>)
  \o (IF d.v >= 17 THEN <<Faulty(d, "attr_order", 1, 3)>> ELSE <<>>)
  \o (IF d.v >= 20 THEN LEBytes(1, 4) \o <<Faulty(d, "enmr_name", 101, 255)>>
      ELSE <<>>)

WireDimensionLabel(d) ==
  LEBytes(0, 4) \o LEBytes(1, 4) \o <<Faulty(d, "label_name", 108, 255)>>
  \o <<1>>
  \o LEBytes(1, 8) \o <<Faulty(d, "label_uri", 117, 255)>>
  \o LEBytes(1, 4) \o <<Faulty(d, "label_attr", 97, 255)>>
  \o <<Faulty(d, "label_order", 2, 3), Faulty(d, "label_type", 9, 42)>>
  \o LEBytes(1, 4) \o <<0>>

WireEnumerationMap(d) ==
  LEBytes(1, 4) \o LEBytes(1, 4) \o <<Faulty(d, "map_name", 101, 255)>>
  \o LEBytes(1, 4) \o <<Faulty(d, "map_path", 112, 255)>>

WireSchema(d) ==
  WireSchemaHeadOf(d) \o WireDomain(d)
  \o LEBytes(1, 4) \o WireAttribute(d)
  \o (IF d.v >= 18 THEN LEBytes(1, 4) \o WireDimensionLabel(d) ELSE <<>>)
  \o (IF d.v >= 20 THEN WireEnumerationMap(d) ELSE <<>>)

Faults ==
  {"none", "array_type", "tile_order", "cell_order", "domain_type",
   "dim_type", "attr_type", "attr_order", "label_order", "label_type",
   "dim_cvn", "attr_cvn", "attr_var", "attr_string_fixed",
   "dim_name", "attr_name", "enmr_name", "label_name", "label_uri",
   "label_attr", "map_name", "map_path"}

SchemaTile(hv, d) ==
  With(WireSchema(d), LAMBDA b :
    [version |-> hv, kbs |-> <<1>>,
     chunks |-> <<Forward(<<1>>, 1, RawChunk(b))>>, logical |-> b, sd |-> d])

\* Whole schemas of every version, over a GZip pipeline.
FullSchemaTiles ==
  {SchemaTile(1, [v |-> v, dtype |-> dt, fault |-> f]) :
     v \in 1..MaxVersion, dt \in {0, 11}, f \in Faults}

\* Tiles whose header carries a format version around the current one.
HeaderVersionTiles ==
  {SchemaTile(hv, [v |-> 1, dtype |-> 0, fault |-> "none"]) :
     hv \in (CURRENT_FORMAT_VERSION - 1)..MaxVersion}

\* A GZip descriptor whose Compression config carries compressor byte ct.
WireTileOf(version, pl, cs) ==
  With(WirePayload(cs), LAMBDA pd :
    WireHeader(version, Len(pd), Len(pl)) \o pl \o pd)

WireCompressorPipeline(ct) ==
  LEBytes(65536, 4) \o LEBytes(1, 4) \o <<1>> \o LEBytes(5, 4)
  \o <<ct>> \o LEBytes(6, 4)

CompressorTiles ==
  {[version |-> 1, kbs |-> <<1>>,
    chunks |-> <<Forward(<<1>>, 1, RawChunk(<<5, 6>>))>>,
    logical |-> <<5, 6>>, ct |-> ct] : ct \in {1, 2, 19, 20, 255}}

\* Files cut short: the first `cut` bytes of a stored tile.
TruncatedTiles ==
  UNION {{[version |-> 1, kbs |-> kbs,
           chunks |-> <<Forward(kbs, 1, RawChunk(<<5, 6>>))>>,
           logical |-> <<5, 6>>, cut |-> cut] :
            cut \in 0..(Len(WireTile(1, kbs,
                            <<Forward(kbs, 1, RawChunk(<<5, 6>>))>>)) - 1)} :
         kbs \in {<<1>>, <<2>>}}

Tiles ==
  GoodTiles \cup KindTiles \cup OddTiles \cup SchemaTiles
  \cup FullSchemaTiles \cup HeaderVersionTiles \cup CompressorTiles
  \cup TruncatedTiles

\* The bytes of the file holding tile t.
TileFile(t) ==
  CASE "ct" \in DOMAIN t ->
         WireTileOf(t.version, WireCompressorPipeline(t.ct), t.chunks)
    [] "cut" \in DOMAIN t ->
         SubSeq(WireTile(t.version, t.kbs, t.chunks), 1, t.cut)
    [] OTHER -> WireTile(t.version, t.kbs, t.chunks)

(***************************************************************************)
(* The decode operations as a state machine                                *)
(***************************************************************************)
VARIABLES
  op,       \* entry point: "read" (storage::schema::read) or "read_generic_tile"
  pc,       \* next step of the entry point
  tile,     \* the stored object the file was written from
  src,      \* the bytes of the file
  offset,   \* offset argument of read_generic_tile
  cur,      \* reader position of storage::schema::read
  header,   \* decoded GenericTileHeader
  list,     \* filters of the decoded FilterList
  chain,    \* FilterChain, head first
  chunks,   \* ChunkedData.chunks handed to unfilter_chunks
  scratch,  \* scratch.chunks of unfilter_chunks
  idx,      \* chunk being unfiltered
  link,     \* link of the chain to run next for chunk idx
  calls,    \* filter invocations made for chunk idx so far
  blob,     \* logical bytes returned by unfilter_chunks
  fields,   \* ArraySchema fields read so far, in order
  result    \* outcome of the entry point

vars == <<op, pc, tile, src, offset, cur, header, list, chain, chunks,
          scratch, idx, link, calls, blob, fields, result>>

NoHeader ==
  [version |-> 0, persisted_size |-> 0, tile_size |-> 0, datatype |-> 0,
   cell_size |-> 0, encryption_type |-> 0, filter_pipeline_size |-> 0]

NoResult == [status |-> "running", val |-> <<>>, at |-> "", ftype |-> ""]

Outcome(status, val, at, ftype) ==
  [status |-> status, val |-> val, at |-> at, ftype |-> ftype]

Init ==
  /\ op \in {"read", "read_generic_tile"}
  /\ tile \in Tiles
  /\ offset \in (IF op = "read" THEN {0} ELSE 0..MaxOffset)
  /\ src = [i \in 1..offset |-> 9] \o TileFile(tile)
  /\ pc = "header"
  /\ cur = 0
  /\ header = NoHeader
  /\ list = <<>>
  /\ chain = <<>>
  /\ chunks = <<>>
  /\ scratch = <<>>
  /\ idx = 0
  /\ link = 0
  /\ calls = <<>>
  /\ blob = <<>>
  /\ fields = <<>>
  /\ result = NoResult

Finish(status, val, at, ftype) ==
  /\ pc' = "done"
  /\ result' = Outcome(status, val, at, ftype)

\* The bytes a step parses and where it starts in them.
StepBytes(nbytes, off) ==
  IF op = "read" THEN src ELSE file_read_vec(src, nbytes, off)

StepPos == IF op = "read" THEN cur ELSE 0

ReadHeader ==
  /\ pc = "header"
  /\ \E bytes \in {StepBytes(GENERIC_TILE_HEADER_SIZE, offset)} :
     \E r \in {ReadGenericTileHeader(bytes, StepPos)} :
       IF r.ok
       THEN /\ header' = r.val
            /\ cur' = r.pos
            /\ pc' = "pipeline"
            /\ UNCHANGED result
       ELSE /\ Finish("err", <<>>, "header", "")
            /\ UNCHANGED <<header, cur>>
  /\ UNCHANGED <<op, tile, src, offset, list, chain, chunks, scratch, idx,
                 link, calls, blob, fields>>

ReadPipeline ==
  /\ pc = "pipeline"
  /\ \E bytes \in {StepBytes(header.filter_pipeline_size,
                            offset + GENERIC_TILE_HEADER_SIZE)} :
     \E r \in {ReadFilterList(bytes, StepPos, header.version)} :
       IF r.ok
       THEN /\ list' = r.val.filters
            /\ cur' = r.pos
            /\ pc' = "chain"
            /\ UNCHANGED result
       ELSE /\ Finish("err", <<>>, "pipeline", "")
            /\ UNCHANGED <<list, cur>>
  /\ UNCHANGED <<op, tile, src, offset, header, chain, chunks, scratch, idx,
                 link, calls, blob, fields>>

\* storage::schema::read builds the chain with FilterChain::from_list,
\* read_generic_tile with TryFrom<&FilterList>.
BuildChain ==
  /\ pc = "chain"
  /\ \E r \in {IF op = "read" THEN from_list(list) ELSE TryFromList(list)} :
       IF r.status = "ok"
       THEN /\ chain' = r.chain
            /\ pc' = "chunks"
            /\ UNCHANGED result
       ELSE /\ Finish(r.status, <<>>, "chain", r.ftype)
            /\ UNCHANGED chain
  /\ UNCHANGED <<op, tile, src, offset, cur, header, list, chunks, scratch,
                 idx, link, calls, blob, fields>>

\* ChunkedData::read, then the start of unfilter_chunks (scratch allocated)
ReadChunks ==
  /\ pc = "chunks"
  /\ \E bytes \in {StepBytes(header.persisted_size,
                            offset + GENERIC_TILE_HEADER_SIZE
                                   + header.filter_pipeline_size)} :
     \E r \in {ReadChunkedData(bytes, StepPos)} :
       IF r.ok
       THEN /\ chunks' = r.val.chunks
            /\ scratch' = NewChunkedData(r.val.num_chunks)
            /\ cur' = r.pos
            /\ idx' = 1
            /\ link' = Len(chain)
            /\ pc' = IF r.val.num_chunks = 0 THEN "concat" ELSE "unfilter"
            /\ UNCHANGED result
       ELSE /\ Finish("err", <<>>, "chunks", "")
            /\ UNCHANGED <<chunks, scratch, cur, idx, link>>
  /\ UNCHANGED <<op, tile, src, offset, header, list, chain, calls, blob,
                 fields>>

\* One link of FilterChain::unfilter for chunk idx; the walk starts at the
\* innermost link and returns towards the head.
UnfilterLink ==
  /\ pc = "unfilter"
  /\ \E r \in {UnfilterStep(chain, link, chunks[idx], scratch[idx])} :
     \E call \in {[link |-> link, filter |-> chain[link], input |-> r.given,
                   output |-> r.output, status |-> r.status,
                   parts |-> r.log]} :
       /\ chunks' = [chunks EXCEPT ![idx] = r.input]
       /\ scratch' = [scratch EXCEPT ![idx] = r.output]
       /\ calls' = IF link = Len(chain) THEN <<call>> ELSE Append(calls, call)
       /\ IF r.status # "ok"
          THEN /\ Finish(r.status, <<>>, "unfilter", "")
               /\ UNCHANGED <<idx, link>>
          ELSE /\ UNCHANGED result
               /\ IF link > 1
                  THEN /\ link' = link - 1
                       /\ UNCHANGED <<idx, pc>>
                  ELSE /\ link' = Len(chain)
                       /\ idx' = idx + 1
                       /\ pc' = IF idx = Len(chunks) THEN "concat"
                                ELSE "unfilter"
  /\ UNCHANGED <<op, tile, src, offset, cur, header, list, chain, blob,
                 fields>>

\* The tail of unfilter_chunks.  read_generic_tile returns the bytes;
\* storage::schema::read goes on to ArraySchema::read over them.
Concat ==
  /\ pc = "concat"
  /\ \E r \in {ConcatChunks(chunks, scratch)} :
       IF r.status # "ok"
       THEN /\ Finish(r.status, <<>>, "concat", "")
            /\ UNCHANGED <<blob, cur>>
       ELSE /\ blob' = r.val
            /\ IF op = "read"
               THEN /\ pc' = "schema"
                    /\ cur' = 0
                    /\ UNCHANGED result
               ELSE /\ Finish("ok", r.val, "concat", "")
                    /\ UNCHANGED cur
  /\ UNCHANGED <<op, tile, src, offset, header, list, chain, chunks,
                 scratch, idx, link, calls, fields>>

\* ArraySchema::read, one field per step; the fields from the domain on
\* follow cell_validity_filters.
ReadSchema ==
  /\ pc = "schema"
  /\ \E name \in {SchemaFields[Len(fields) + 1]} :
     \E version \in {IF fields = <<>> THEN 0 ELSE fields[1].val} :
     \E r \in {ReadSchemaField(name, blob, cur, version)} :
       IF r.ok
       THEN /\ fields' = Append(fields, [name |-> name, val |-> r.val,
                                         from |-> cur, to |-> r.pos])
            /\ cur' = r.pos
            /\ pc' = IF Len(fields) + 1 = Len(SchemaFields) THEN "domain"
                     ELSE "schema"
            /\ UNCHANGED result
       ELSE /\ Finish("err", <<>>, name, "")
            /\ IF r.err = "assert"
               THEN /\ fields' = Append(fields, [name |-> name, val |-> r.val,
                                                 from |-> cur, to |-> r.pos])
                    /\ cur' = r.pos
               ELSE UNCHANGED <<fields, cur>>
  /\ UNCHANGED <<op, tile, src, offset, header, list, chain, chunks,
                 scratch, idx, link, calls, blob>>

\* ArraySchema::read from the domain on; the last field read ends
\* storage::schema::read with Ok(schema).
ReadSchemaBody ==
  /\ pc = "domain"
  /\ \E name \in {SchemaBody[Len(fields) - Len(SchemaFields) + 1]} :
     \E r \in {ReadSchemaBodyField(name, blob, cur, fields[1].val, fields)} :
       IF r.ok
       THEN /\ fields' = Append(fields, [name |-> name, val |-> r.val,
                                         from |-> cur, to |-> r.pos])
            /\ cur' = r.pos
            /\ IF Len(fields) + 1 = Len(SchemaFields) + Len(SchemaBody)
               THEN Finish("ok", <<>>, "schema", "")
               ELSE UNCHANGED <<pc, result>>
       ELSE /\ Finish(IF r.err = "panic" THEN "panic" ELSE "err", <<>>,
                      name, "")
            /\ UNCHANGED <<fields, cur>>
  /\ UNCHANGED <<op, tile, src, offset, header, list, chain, chunks,
                 scratch, idx, link, calls, blob>>

\* ArraySchema::try_from applied to the schema storage::schema::read
\* returned
Convert ==
  /\ pc = "done"
  /\ op = "read"
  /\ result.status = "ok"
  /\ \E r \in {TryFromArraySchema(fields)} :
       /\ pc' = "converted"
       /\ result' = Outcome(r.status, r.val, r.at, "")
  /\ UNCHANGED <<op, tile, src, offset, cur, header, list, chain, chunks,
                 scratch, idx, link, calls, blob, fields>>

\* ArraySchema::write applied to the schema storage::schema::read
\* returned
Encode ==
  /\ pc = "done"
  /\ op = "read"
  /\ result.status = "ok"
  /\ \E bytes \in {WriteArraySchema(fields)} :
       /\ pc' = "encoded"
       /\ result' = Outcome("ok", bytes, "write", "")
  /\ UNCHANGED <<op, tile, src, offset, cur, header, list, chain, chunks,
                 scratch, idx, link, calls, blob, fields>>

Next ==
  \/ ReadHeader
  \/ ReadPipeline
  \/ BuildChain
  \/ ReadChunks
  \/ UnfilterLink
  \/ Concat
  \/ ReadSchema
  \/ ReadSchemaBody
  \/ Convert
  \/ Encode

Spec == Init /\ [][Next]_vars

(***************************************************************************)
(* unfilter_chunks with its per-chunk loop run in any order: each step     *)
(* takes one link of the walk of some chunk whose walk has not ended.      *)
(* `link` holds, for every chunk, the link its walk runs next (0 once the  *)
(* walk has returned).                                                     *)
(***************************************************************************)
ParPayloads == {<<>>, <<5>>, <<6>>, <<5, 6>>}

ParTiles ==
  {[version |-> 1, kbs |-> kbs,
    chunks |-> [i \in 1..Len(ds) |-> Forward(kbs, 1, RawChunk(ds[i]))],
    logical |-> Flatten(ds)] :
     kbs \in SupportedPipelines \ {<<>>}, ds \in SeqsUpTo(ParPayloads, MaxChunks)}
  \cup OddTiles

\* The decoded pipeline and chunks of a stored tile
DecodedList(t) == ReadFilterList(WirePipeline(t.kbs, t.version), 0,
                                 t.version).val.filters

DecodedChunks(t) == ReadChunkedData(WirePayload(t.chunks), 0).val.chunks

ParInit ==
  /\ op = "unfilter_chunks"
  /\ tile \in ParTiles
  /\ src = <<>>
  /\ offset = 0
  /\ cur = 0
  /\ header = NoHeader
  /\ list = DecodedList(tile)
  /\ chain = from_list(list).chain
  /\ chunks = DecodedChunks(tile)
  /\ scratch = NewChunkedData(Len(chunks))
  /\ idx = 0
  /\ link = [i \in 1..Len(chunks) |-> Len(chain)]
  /\ pc = IF chunks = <<>> THEN "concat" ELSE "unfilter"
  /\ calls = <<>>
  /\ blob = <<>>
  /\ fields = <<>>
  /\ result = NoResult

ParUnfilterLink ==
  /\ pc = "unfilter"
  /\ \E i \in {j \in 1..Len(chunks) : link[j] > 0} :
     \E r \in {UnfilterStep(chain, link[i], chunks[i], scratch[i])} :
       /\ idx' = i
       /\ chunks' = [chunks EXCEPT ![i] = r.input]
       /\ scratch' = [scratch EXCEPT ![i] = r.output]
       /\ IF r.status # "ok"
          THEN /\ Finish(r.status, <<>>, "unfilter", "")
               /\ UNCHANGED link
          ELSE /\ link' = [link EXCEPT ![i] = link[i] - 1]
               /\ pc' = IF \A j \in 1..Len(chunks) : link'[j] = 0
                        THEN "concat" ELSE "unfilter"
               /\ UNCHANGED result
  /\ UNCHANGED <<op, tile, src, offset, cur, header, list, chain, calls,
                 blob, fields>>

ParConcat ==
  /\ pc = "concat"
  /\ \E r \in {ConcatChunks(chunks, scratch)} :
       IF r.status # "ok"
       THEN /\ Finish(r.status, <<>>, "concat", "")
            /\ UNCHANGED blob
       ELSE /\ blob' = r.val
            /\ Finish("ok", r.val, "concat", "")
  /\ UNCHANGED <<op, tile, src, offset, cur, header, list, chain, chunks,
                 scratch, idx, link, calls, fields>>

ParNext ==
  \/ ParUnfilterLink
  \/ ParConcat

ParSpec == ParInit /\ [][ParNext]_vars

(***************************************************************************)
(* storage::fragment -- the format version named by a fragment directory.  *)
(* A name is a sequence of characters (code points); String::len and       *)
(* String::rfind count bytes of its UTF-8 encoding.                        *)
(***************************************************************************)
\* char::len_utf8
len_utf8(c) ==
  IF c < 128 THEN 1 ELSE IF c < 2048 THEN 2 ELSE IF c < 65536 THEN 3 ELSE 4

\* String::len of the characters i..j of name
RECURSIVE StrLen(_, _, _)
StrLen(name, i, j) ==
  IF i > j THEN 0 ELSE len_utf8(name[i]) + StrLen(name, i + 1, j)

\* The characters of name that are '_'
Underscores(name) == {i \in 1..Len(name) : name[i] = 95}

\* String::rfind('_') as a character index, 0 for None
LastUnderscore(name) ==
  IF Underscores(name) = {} THEN 0
  ELSE CHOOSE i \in Underscores(name) : \A j \in Underscores(name) : j <= i

\* get_fragment_name_version measuring the suffix in characters
get_fragment_name_version_chars(name) ==
  IF Cardinality(Underscores(name)) = 5 THEN "Three"
  ELSE With(LastUnderscore(name), LAMBDA last_underscore :
         IF last_underscore # 0 /\ Len(name) - last_underscore = 32
         THEN "Two" ELSE "One")

get_fragment_name_version(name) ==
  IF Cardinality(Underscores(name)) = 5 THEN "Three"
  ELSE With(LastUnderscore(name), LAMBDA last_underscore :
         IF /\ last_underscore # 0
            /\ StrLen(name, 1, Len(name))
                 - StrLen(name, 1, last_underscore - 1) - 1 = 32
         THEN "Two" ELSE "One")

IsDigit(c) == c >= 48 /\ c <= 57

\* digits without their leading zeros
RECURSIVE Significant(_)
Significant(ds) ==
  IF ds # <<>> /\ ds[1] = 48 THEN Significant(Tail(ds)) ELSE ds

\* u32::MAX in decimal
U32MaxDigits == <<52, 50, 57, 52, 57, 54, 55, 50, 57, 53>>

\* a < b for digit strings of one length
RECURSIVE DigitsBelow(_, _)
DigitsBelow(a, b) ==
  /\ a # <<>>
  /\ \/ a[1] < b[1]
     \/ a[1] = b[1] /\ DigitsBelow(Tail(a), Tail(b))

RECURSIVE DigitsValue(_, _)
DigitsValue(ds, acc) ==
  IF ds = <<>> THEN acc
  ELSE DigitsValue(Tail(ds), IF acc * 10 + (ds[1] - 48) >= Huge THEN Huge
                             ELSE acc * 10 + (ds[1] - 48))

\* <u32 as FromStr>::from_str: an optional '+', then decimal digits, with
\* checked multiplication and addition
ParseU32(text) ==
  IF text = <<>> THEN Fail("Empty") ELSE
  With(IF text[1] = 43 THEN Tail(text) ELSE text, LAMBDA digits :
  IF digits = <<>> \/ \E i \in 1..Len(digits) : ~IsDigit(digits[i])
  THEN Fail("InvalidDigit") ELSE
  With(Significant(digits), LAMBDA sig :
  IF \/ Len(sig) > Len(U32MaxDigits)
     \/ Len(sig) = Len(U32MaxDigits) /\ DigitsBelow(U32MaxDigits, sig)
  THEN Fail("PosOverflow")
  ELSE [ok |-> TRUE, val |-> DigitsValue(sig, 0), pos |-> Len(text)]))

get_fragment_version(name) ==
  With(get_fragment_name_version(name), LAMBDA name_version :
  IF name_version = "One" THEN [ok |-> TRUE, val |-> 2, pos |-> 0]
  ELSE IF name_version = "Two" THEN [ok |-> TRUE, val |-> 4, pos |-> 0]
  ELSE With(LastUnderscore(name), LAMBDA last_underscore :
         IF last_underscore # 0
         THEN ParseU32(SubSeq(name, last_underscore + 1, Len(name)))
         ELSE Fail("Invalid fragment name")))

\* Fragment directory names: the three generations of the tests, with
\* well-formed and malformed parts
Repeat(c, n) == [i \in 1..n |-> c]

Uuids ==
  {Repeat(97, 32), Repeat(97, 31), Repeat(97, 31) \o <<233>>,
   Repeat(97, 30) \o <<233>>, Repeat(97, 28) \o <<8364, 128512>>}

Timestamps == {<<49>>, <<50, 51>>}

VersionTexts ==
  {<<55>>, <<50, 49>>, <<48, 48, 55>>, <<43, 55>>, <<>>, <<43>>, <<45, 49>>,
   <<120>>, <<55, 98>>, <<50, 53, 53>>,
   U32MaxDigits, <<52, 50, 57, 52, 57, 54, 55, 50, 57, 54>>,
   <<49, 54, 55, 55, 55, 50, 49, 54>>, <<49>> \o Repeat(48, 10)}

Joined(parts) ==
  <<95>> \o Flatten([i \in 1..Len(parts) |-> <<95>> \o parts[i]])

FragmentNames ==
  {Joined(<<u, t>>) : u \in Uuids, t \in Timestamps}
    \cup {Joined(<<u, t, t2>>) : u \in Uuids, t \in Timestamps, t2 \in Timestamps}
    \cup {Joined(<<t, t2, u>>) : u \in Uuids, t \in Timestamps, t2 \in Timestamps}
    \cup {Joined(<<t, t, u, v>>) : u \in Uuids, t \in Timestamps, v \in VersionTexts}
    \cup {Joined(<<t, t, u, v, v>>) : u \in Uuids, t \in Timestamps, v \in VersionTexts}
    \cup {Joined(<<t, u, u, u>>) : u \in Uuids, t \in Timestamps}
    \cup Uuids \cup {<<>>, Repeat(95, 5), Repeat(95, 33), Repeat(95, 6)}

(***************************************************************************)
(* The conversions and the two filter decoders on their own: every byte is *)
(* converted to each wire enum and back, and one filter descriptor is      *)
(* decoded by storage::filter (which takes the version) and by the         *)
(* FilterConfig of storage (mod.rs).                                       *)
(***************************************************************************)
CodecVersions == {1, 18, 19, 20, MaxVersion}

\* compressor_type bytes written after the kind
CodecCompressors == {1, 6, 19}

\* metadata_len values written in a descriptor
CodecMetadataLens == {0, 5, 300}

\* a descriptor of kind k with metadata_len ml and compressor byte c, of which
\* avail bytes follow the metadata_len
WireDescriptor(k, ml, c, avail) ==
  <<k>> \o LEBytes(ml, 4)
        \o SubSeq(<<c>> \o LEBytes(6, 4) \o <<3>> \o Zeros(24), 1, avail)

\* kind bytes: the known kinds and two bytes that convert to Invalid
CodecKinds == 0..Len(FilterTypeNames) \cup {255}

CodecDescriptors ==
  {[kind |-> k, compressor |-> c, ml |-> ml, avail |-> a] :
     k \in CodecKinds, c \in CodecCompressors, ml \in CodecMetadataLens,
     a \in {2, 30}}

WireEnums == <<"ArrayType", "Layout", "DataOrder", "DataType", "FilterType">>

EnumFromU8(enum, b) ==
  CASE enum = "ArrayType" -> ArrayTypeFromU8(b)
    [] enum = "Layout" -> LayoutFromU8(b)
    [] enum = "DataOrder" -> DataOrderFromU8(b)
    [] enum = "DataType" -> DataTypeFromU8(b)
    [] enum = "FilterType" -> FilterTypeFromU8(b)

EnumAsU8(enum, v) ==
  CASE enum = "ArrayType" -> ArrayTypeAsU8(v)
    [] enum = "Layout" -> LayoutAsU8(v)
    [] enum = "DataOrder" -> DataOrderAsU8(v)
    [] enum = "DataType" -> DataTypeAsU8(v)
    [] enum = "FilterType" -> FilterTypeAsU8(v)

CodecInit ==
  /\ op \in {"from_u8", "filter", "filter_mod", "fragment_version"}
  /\ tile \in (CASE op = "from_u8" -> {[byte |-> b] : b \in 0..255}
                 [] op = "fragment_version" ->
                      {[name |-> n] : n \in FragmentNames}
                 [] OTHER -> CodecDescriptors)
  /\ src = (CASE op = "from_u8" -> <<tile.byte>>
             [] op = "fragment_version" -> tile.name
             [] OTHER -> WireDescriptor(tile.kind, tile.ml, tile.compressor,
                                         tile.avail))
  /\ header \in (IF op \in {"filter", "filter_mod"}
                 THEN {[NoHeader EXCEPT !.version = v] : v \in CodecVersions}
                 ELSE {NoHeader})
  /\ offset = 0
  /\ pc = "start"
  /\ cur = 0
  /\ list = <<>>
  /\ chain = <<>>
  /\ chunks = <<>>
  /\ scratch = <<>>
  /\ idx = 0
  /\ link = 0
  /\ calls = <<>>
  /\ blob = <<>>
  /\ fields = <<>>
  /\ result = NoResult

\* u8 -> enum, once for each wire enum
FromU8 ==
  /\ op = "from_u8"
  /\ pc = "start"
  /\ fields' = [i \in 1..Len(WireEnums) |->
                  [name |-> WireEnums[i],
                   val |-> EnumFromU8(WireEnums[i], src[1])]]
  /\ pc' = "back"
  /\ UNCHANGED <<op, tile, src, offset, cur, header, list, chain, chunks,
                 scratch, idx, link, calls, blob, result>>

\* enum as u8, and that byte converted again
AsU8 ==
  /\ op = "from_u8"
  /\ pc = "back"
  /\ blob' = [i \in 1..Len(fields) |-> EnumAsU8(fields[i].name, fields[i].val)]
  /\ calls' = [i \in 1..Len(fields) |->
                 EnumFromU8(fields[i].name,
                            EnumAsU8(fields[i].name, fields[i].val))]
  /\ Finish("ok", <<>>, "from_u8", "")
  /\ UNCHANGED <<op, tile, src, offset, cur, header, list, chain, chunks,
                 scratch, idx, link, fields>>

DecodeWith(r) ==
  /\ pc = "start"
  /\ IF r.ok
     THEN /\ list' = <<r.val>>
          /\ cur' = r.pos
          /\ Finish("ok", <<>>, "filter", "")
     ELSE /\ UNCHANGED <<list, cur>>
          /\ Finish("err", <<>>, "filter", "")
  /\ UNCHANGED <<op, tile, src, offset, header, chain, chunks, scratch, idx,
                 link, calls, blob, fields>>

\* Filter::read_args of storage::filter
DecodeFilter ==
  /\ op = "filter"
  /\ \E r \in {ReadFilter(src, 0, header.version)} : DecodeWith(r)

\* Filter::read of storage (mod.rs)
DecodeFilterMod ==
  /\ op = "filter_mod"
  /\ \E r \in {ReadFilterMod(src, 0)} : DecodeWith(r)

\* get_fragment_version on the name
FragmentVersion ==
  /\ op = "fragment_version"
  /\ pc = "start"
  /\ \E r \in {get_fragment_version(src)} :
       IF r.ok THEN Finish("ok", <<r.val>>, "fragment_version", "")
       ELSE Finish("err", <<>>, "fragment_version", "")
  /\ UNCHANGED <<op, tile, src, offset, cur, header, list, chain, chunks,
                 scratch, idx, link, calls, blob, fields>>

CodecNext ==
  \/ FromU8
  \/ AsU8
  \/ DecodeFilter
  \/ DecodeFilterMod
  \/ FragmentVersion

CodecSpec == CodecInit /\ [][CodecNext]_vars

(***************************************************************************)
(* Properties                                                              *)
(***************************************************************************)
PipelineDecoded ==
  \/ pc \in {"chain", "chunks", "unfilter", "concat", "schema", "domain"}
  \/ pc = "done" /\ result.at \notin {"header", "pipeline"}

\* The per-chunk loop of unfilter_chunks has ended without an error.
LoopDone ==
  \/ pc \in {"schema", "domain"}
  \/ pc = "done"
     /\ result.at \notin {"header", "pipeline", "chain", "chunks", "unfilter"}

Crashed == pc = "done" /\ result.status = "panic"

Supported(ftype) == ftype \in {"None", "GZip"}

\* A walk of the chain over one chunk has returned Ok and `calls` is its log.
WalkReturned ==
  \/ pc = "unfilter" /\ idx > 1 /\ link = Len(chain)
  \/ pc = "concat" /\ chunks # <<>>
  \/ LoopDone /\ chunks # <<>>

\* C1: the chain built by from_list has one link per descriptor, in list
\* order (head = first descriptor, innermost = last), and the unfilter walk
\* over a chunk invokes the links' filters innermost first, each at most
\* once and, when the walk returns Ok, each exactly once; every stage after
\* the first is handed the previous stage's output chunk as its input.
C1_ReverseOrderWalk ==
  chain # <<>> =>
    /\ Len(chain) = Len(list)
    /\ \A i \in 1..Len(chain) :
         chain[i].kind = (IF list[i].filter_type = "None" THEN "EmptyFilter"
                          ELSE "GZipFilter")
    /\ Len(calls) <= Len(chain)
    /\ \A j \in 1..Len(calls) :
         /\ calls[j].link = Len(chain) - j + 1
         /\ calls[j].filter = chain[Len(chain) - j + 1]
         /\ j > 1 => calls[j].input = calls[j - 1].output
    /\ WalkReturned => Len(calls) = Len(chain)

C1_Witness ==
  /\ pc = "concat"
  /\ Len(chain) = 2
  /\ chain[1].kind = "EmptyFilter"
  /\ chain[2].kind = "GZipFilter"
  /\ Len(calls) = 2

\* C2: read_generic_tile on a well-formed tile whose pipeline holds one or
\* more None/GZip descriptors returns Ok with the tile's logical bytes.
C2_GenericTileReadsWellFormed ==
  (op = "read_generic_tile" /\ tile \in GoodTiles /\ Len(tile.kbs) >= 1
   /\ pc = "done")
    => (result.status = "ok" /\ result.val = tile.logical)

RECURSIVE Total(_, _, _, _)
Total(parts, from, to, field) ==
  IF from > to THEN 0
  ELSE parts[from][field] + Total(parts, from + 1, to, field)

\* C3: when the chain succeeds on every chunk, unfilter_chunks returns a
\* buffer of length sum(original_size as decoded from the payload) with
\* chunk i's output data at offset sum(original_size_j, j < i).
C3_SizedByDecodedOriginalSize ==
  (op = "read" /\ LoopDone)
    => /\ ~Crashed
       /\ Len(blob) = Total(tile.chunks, 1, Len(tile.chunks), "original_size")
       /\ \A i \in 1..Len(tile.chunks) :
            \A at \in {Total(tile.chunks, 1, i - 1, "original_size")} :
            \A b \in 1..tile.chunks[i].original_size :
              b <= Len(scratch[i].data) => blob[at + b] = scratch[i].data[b]

\* C4: a single None filter over chunks with no metadata and
\* data_size = original_size decodes to the concatenation of the chunks' data.
C4_SingleNoneConcatenates ==
  (op = "read" /\ tile \in GoodTiles /\ tile.kbs = <<0>> /\ LoopDone)
    => (~Crashed /\ blob = tile.logical)

\* C5: in compression unfiltering part q (metadata parts first, then data
\* parts) reads the input range starting at the sum of compressed_size of
\* all earlier parts and writes the output range starting at the sum of
\* uncompressed_size of the earlier parts of its own pass; the output
\* metadata and data buffers have the summed uncompressed sizes.
C5_CompressionCursors ==
  \A j \in 1..Len(calls) :
    calls[j].filter.kind = "GZipFilter" =>
      \A fr \in {ReadCompressionChunks(calls[j].input.metadata)} :
      \A lg \in {calls[j].parts} :
      IF ~fr.ok THEN lg = <<>> /\ calls[j].status = "err"
      ELSE
        \A mp \in {fr.val.metadata_parts} :
        \A dp \in {fr.val.data_parts} :
        \A all \in {mp \o dp} :
        /\ Len(lg) <= Len(all)
        /\ \A q \in 1..Len(lg) :
             \A first \in {IF q <= Len(mp) THEN 1 ELSE Len(mp) + 1} :
             /\ lg[q].pass = (IF q <= Len(mp) THEN "metadata" ELSE "data")
             /\ lg[q].in_from = Total(all, 1, q - 1, "compressed_size")
             /\ lg[q].in_to = lg[q].in_from + all[q].compressed_size
             /\ lg[q].out_from = Total(all, first, q - 1, "uncompressed_size")
             /\ lg[q].out_to = lg[q].out_from + all[q].uncompressed_size
        /\ calls[j].status = "ok" =>
             /\ Len(lg) = Len(all)
             /\ Len(calls[j].output.metadata) =
                  Total(mp, 1, Len(mp), "uncompressed_size")
             /\ Len(calls[j].output.data) =
                  Total(dp, 1, Len(dp), "uncompressed_size")

C5_Witness ==
  \E j \in 1..Len(calls) :
    /\ calls[j].status = "ok"
    /\ Len(calls[j].parts) = 4
    /\ calls[j].parts[2].pass = "metadata"
    /\ calls[j].parts[3].pass = "data"
    /\ calls[j].parts[3].in_from > 0
    /\ calls[j].parts[3].out_from = 0

\* C6: a pipeline with zero descriptors never yields a chain, on either
\* construction path.
C6_EmptyPipelineRejected ==
  (PipelineDecoded /\ list = <<>>)
    => /\ chain = <<>>
       /\ pc \in {"chain", "done"}
       /\ pc = "done" =>
            (result.at = "chain" /\ result.status \in {"err", "panic"})

C6_Witness ==
  /\ op = "read"
  /\ tile.kbs = <<>>
  /\ pc = "done"
  /\ result.at = "chain"
  /\ chain = <<>>

\* C7: a pipeline holding a descriptor of a kind other than None and GZip
\* ends chain construction in an error value naming the kind and produces
\* no chain, on every construction path.
C7_UnsupportedKindIsErrorValue ==
  (PipelineDecoded /\ pc # "chain"
   /\ \E i \in 1..Len(list) : ~Supported(list[i].filter_type))
    => /\ pc = "done"
       /\ result.at = "chain"
       /\ result.status = "err"
       /\ \E i \in 1..Len(list) :
            ~Supported(list[i].filter_type) /\ result.ftype = list[i].filter_type
       /\ chain = <<>>

\* C8 as stated: raw decoding of a descriptor succeeds for every kind byte
\* 0..255 when the bytes are all there.
C8_RawDecodeNeverRejectsKind ==
  tile \in KindTiles => ~(pc = "done" /\ result.at = "pipeline")

\* C8 amended: raw decoding succeeds for every kind byte 0..19, supported or
\* not, and yields that kind; a kind byte of 20..255 maps to Invalid and is
\* rejected by the raw decode already.
C8_RawDecodeRejectsOnlyInvalid ==
  (tile \in KindTiles /\ pc \notin {"header", "pipeline"})
    => IF \E i \in 1..Len(tile.kbs) : tile.kbs[i] >= 20
       THEN pc = "done" /\ result.at = "pipeline" /\ result.status = "err"
       ELSE /\ result.at # "pipeline"
            /\ Len(list) = Len(tile.kbs)
            /\ \A i \in 1..Len(list) :
                 list[i].filter_type = FilterTypeNames[tile.kbs[i] + 1]

C8_Witness ==
  /\ tile \in KindTiles
  /\ tile.kbs = <<18>>
  /\ pc = "chain"
  /\ list[1].filter_type = "WebP"

\* C9: when unfiltering a chunk fails, unfilter_chunks ends with an error
\* value and no bytes; it never crashes.
C9_ChunkFailureIsErrorValue ==
  (pc = "done" /\ result.at = "unfilter")
    => (result.status = "err" /\ result.val = <<>>)

\* C10: decoding an ArraySchema blob is rejected at its version field,
\* with no later field read and no further byte consumed, exactly when the
\* version is greater than CURRENT_FORMAT_VERSION (21).
C10_VersionGate ==
  (tile \in SchemaTiles /\ fields # <<>>)
    => /\ fields[1].name = "version"
       /\ fields[1].val = tile.sv
       /\ IF tile.sv > 21
          THEN /\ pc = "done"
               /\ result.status = "err"
               /\ result.at = "version"
               /\ Len(fields) = 1
               /\ cur = 4
          ELSE ~(pc = "done" /\ result.at = "version")

C10_Witness ==
  /\ tile \in SchemaTiles
  /\ tile.sv = 22
  /\ pc = "done"
  /\ result.at = "version"
  /\ fields = <<[name |-> "version", val |-> 22, from |-> 0, to |-> 4]>>

(***************************************************************************)
(* Properties of the header version, the schema layout and its enums       *)
(***************************************************************************)
IsFullSchema == "sd" \in DOMAIN tile

Has(name) == \E i \in 1..Len(fields) : fields[i].name = name

Entry(name) == fields[FieldAt(fields, name)]

Taken(name) == Entry(name).to - Entry(name).from

SchemaDecoded == pc = "done" /\ result.status = "ok" /\ result.at = "schema"

\* C11: a tile whose header version is above 21 is rejected with an error at
\* the header, before its pipeline or payload is decoded.
C11_NewerHeaderRejected ==
  (header.version > 21 /\ pc # "header")
    => (pc = "done" /\ result.at = "header" /\ result.status = "err")

\* A gated field: read (taking `bytes` > 0 bytes) when its threshold is met,
\* else no bytes and the default.
Gate(met, bytes, val, default) ==
  IF met THEN bytes > 0 ELSE bytes = 0 /\ val = default

\* C12: for schema versions 1..21 each version-gated field is read exactly
\* when its threshold is met and otherwise takes no bytes and has its
\* default: allows_dups (5), cell_validity_filters (7), attribute nullable
\* and fill_value_validity (7), attribute data_order (17), the dimension
\* label count (18), attribute enumeration_name and the enumeration map (20).
C12_VersionGatedFields ==
  (IsFullSchema /\ fields # <<>> /\ fields[1].val \in 1..21) =>
    \A v \in {fields[1].val} :
      /\ Has("allows_dups") =>
           Gate(v >= 5, Taken("allows_dups"), Entry("allows_dups").val, 0)
      /\ Has("cell_validity_filters") =>
           Gate(v >= 7, Taken("cell_validity_filters"),
                Entry("cell_validity_filters").val, DefaultFilterList)
      /\ Has("attributes") =>
           \A a \in {Entry("attributes").val[i] :
                       i \in 1..Len(Entry("attributes").val)} :
             /\ Gate(v >= 7, a.wire.nullable, a.nullable, 0)
             /\ Gate(v >= 7, a.wire.fill_value_validity,
                     a.fill_value_validity, 0)
             /\ Gate(v >= 17, a.wire.data_order, a.data_order, "Unordered")
             /\ Gate(v >= 20, a.wire.enumeration_name, a.enumeration_name, <<>>)
      /\ Has("num_dimension_labels") =>
           Gate(v >= 18, Taken("num_dimension_labels"),
                Entry("num_dimension_labels").val, 0)
      /\ Has("enumeration_map") =>
           Gate(v >= 20, Taken("enumeration_map"),
                Entry("enumeration_map").val, <<>>)

StringLike ==
  {"StringAscii", "StringUtf8", "StringUtf16", "StringUtf32", "StringUcs2",
   "StringUcs4"}

\* C13: below version 5 a dimension reads no data_type, cell_val_num or
\* coords_filters of its own: it has the domain's data_type, a cell_val_num
\* of CELL_VAR_SIZE for a string-like type and 1 otherwise, and the schema's
\* coords_filters; from version 5 on all three come from the dimension's own
\* bytes.  A well-formed blob of either layout gets through the domain.
C13_DimensionInheritsBelowV5 ==
  IsFullSchema =>
    /\ (pc = "done" /\ tile.sd.fault = "none" /\ tile.sd.v <= 21)
         => result.at # "domain"
    /\ Has("domain") =>
         \A v \in {fields[1].val} : \A dom \in {Entry("domain").val} :
         \A k \in 1..Len(dom.dimensions) : \A dim \in {dom.dimensions[k]} :
           IF v < 5
           THEN /\ dim.wire.data_type = 0
                /\ dim.wire.cell_val_num = 0
                /\ dim.wire.coords_filters = 0
                /\ dim.data_type = dom.data_type
                /\ dim.data_type = DataTypeNames[tile.sd.dtype + 1]
                /\ dim.cell_val_num =
                     (IF dom.data_type \in StringLike THEN CELL_VAR_SIZE ELSE 1)
                /\ dim.coords_filters = Entry("coords_filters").val
           ELSE /\ dim.wire.data_type = 1
                /\ dim.wire.cell_val_num = 4
                /\ dim.wire.coords_filters > 0
                /\ dim.data_type = DataTypeNames[tile.sd.dtype + 1]
                /\ dim.cell_val_num =
                     (IF k = 1 /\ tile.sd.fault = "dim_cvn" THEN 0
                      ELSE IF dim.data_type \in StringLike THEN CELL_VAR_SIZE
                      ELSE 1)

C13_Witness ==
  /\ IsFullSchema
  /\ tile.sd.v = 4
  /\ Has("domain")
  /\ Len(Entry("domain").val.dimensions) = 2
  /\ Entry("domain").val.dimensions[2].data_type = "StringAscii"
  /\ Entry("domain").val.dimensions[2].cell_val_num = CELL_VAR_SIZE
  /\ Entry("domain").val.dimensions[2].coords_filters.num_filters = 1

\* C14 as stated: at version 6 a cell_validity_filters list is read from
\* the blob.
C14_ValidityFiltersReadAtV6 ==
  (IsFullSchema /\ tile.sd.v = 6 /\ Has("cell_validity_filters"))
    => Taken("cell_validity_filters") > 0

\* C14 amended: at version 6 no cell_validity_filters list is read: the
\* field takes no bytes, is the empty list, and the domain starts where
\* cell_var_filters ended; the list is read exactly from version 7 on. A
\* version 6 schema written without the list decodes to the end.
C14_ValidityFiltersReadFromV7 ==
  /\ (IsFullSchema /\ op = "read" /\ pc = "done"
      /\ tile.sd.v = 6 /\ tile.sd.fault = "none") => SchemaDecoded
  /\ (IsFullSchema /\ tile.sd.v \in 1..21 /\ Has("cell_validity_filters")) =>
    /\ Entry("cell_validity_filters").from = Entry("cell_var_filters").to
    /\ IF tile.sd.v >= 7
       THEN /\ Taken("cell_validity_filters") > 0
            /\ Entry("cell_validity_filters").val.num_filters = 1
       ELSE /\ Taken("cell_validity_filters") = 0
            /\ Entry("cell_validity_filters").val = DefaultFilterList
    /\ Has("domain") =>
         Entry("domain").from = Entry("cell_validity_filters").to
    /\ (pc = "done" /\ tile.sd.fault = "none") => result.at # "domain"

C14_Witness ==
  /\ IsFullSchema
  /\ tile.sd.v = 6
  /\ Has("domain")
  /\ Taken("cell_validity_filters") = 0
  /\ Entry("domain").from = Entry("cell_var_filters").to

\* The top-level field at which a schema written with fault f is rejected,
\* "" when the faulty byte is not in the layout of version v.
FaultField(f, v) ==
  CASE f \in {"array_type", "tile_order", "cell_order"} -> f
    [] f = "domain_type" /\ v < 5 -> "domain"
    [] f = "dim_type" /\ v >= 5 -> "domain"
    [] f = "attr_type" -> "attributes"
    [] f = "attr_order" /\ v >= 17 -> "attributes"
    [] f \in {"label_order", "label_type"} /\ v >= 18 -> "dimension_labels"
    [] OTHER -> ""

\* The enum values held by the fields decoded so far.
EnumValues ==
  {fields[i].val : i \in {j \in 1..Len(fields) :
      fields[j].name \in {"array_type", "tile_order", "cell_order"}}}
  \cup UNION {{fields[i].val.data_type}
              \cup {fields[i].val.dimensions[k].data_type :
                      k \in 1..Len(fields[i].val.dimensions)} :
              i \in {j \in 1..Len(fields) : fields[j].name = "domain"}}
  \cup UNION {UNION {{fields[i].val[k].data_type, fields[i].val[k].data_order} :
                       k \in 1..Len(fields[i].val)} :
              i \in {j \in 1..Len(fields) :
                       fields[j].name \in {"attributes", "dimension_labels"}}}

\* C17: a schema whose array_type, tile_order, cell_order, data_type or
\* data_order byte is out of range is rejected with an error at that field,
\* and a decoded schema holds Invalid in none of these fields.
C17_InvalidEnumRejected ==
  /\ SchemaDecoded => "Invalid" \notin EnumValues
  /\ (op = "read" /\ IsFullSchema /\ tile.sd.v \in 1..21 /\ pc = "done"
      /\ FaultField(tile.sd.fault, tile.sd.v) # "")
       => /\ result.status = "err"
          /\ result.at = FaultField(tile.sd.fault, tile.sd.v)

C17_Witness ==
  /\ IsFullSchema
  /\ tile.sd.v = 18
  /\ tile.sd.fault = "label_type"
  /\ pc = "done"
  /\ result.status = "err"
  /\ result.at = "dimension_labels"
  /\ Has("attributes")

\* C18: a Compression config whose compressor_type byte is out of range is
\* rejected at decode or at filter construction: no chain is built from it.
C18_InvalidCompressorRejected ==
  (PipelineDecoded
   /\ \E i \in 1..Len(list) :
        /\ list[i].config.shape = "Compression"
        /\ list[i].config.compressor_type = "Invalid")
    => /\ chain = <<>>
       /\ pc \in {"chain", "done"}
       /\ pc = "done" => result.at = "chain"

\* C19: every dimension and attribute of a decoded schema has cell_val_num
\* CELL_VAR_SIZE when its type is string-like and a positive count below
\* CELL_VAR_SIZE otherwise.
C19_CellValNumMatchesType ==
  SchemaDecoded =>
    \A c \in {Entry("domain").val.dimensions[k] :
                k \in 1..Len(Entry("domain").val.dimensions)}
             \cup {Entry("attributes").val[k] :
                     k \in 1..Len(Entry("attributes").val)} :
      IF c.data_type \in StringLike
      THEN c.cell_val_num = CELL_VAR_SIZE
      ELSE c.cell_val_num > 0 /\ c.cell_val_num < CELL_VAR_SIZE

\* C20: a file holding fewer bytes than its header, pipeline and payload
\* need makes the decode return an error.
C20_TruncatedIsError ==
  ("cut" \in DOMAIN tile /\ pc = "done") => result.status = "err"

(***************************************************************************)
(* Properties of CodecSpec                                                 *)
(***************************************************************************)
\* bytes a descriptor takes before the reinterpret_type byte of a
\* Compression config: kind, metadata_len, compressor_type, compression_level
CompressionBase == 1 + 4 + 1 + 4

ReinterpretExpected(k, v) ==
  \/ k = "Delta" /\ v >= 19
  \/ k = "DoubleDelta" /\ v >= 20

\* C15: whichever decoder decodes a Compression config, for version v and
\* kind k, the reinterpret_type byte is taken from the wire exactly when
\* (k = Delta and v >= 19) or (k = DoubleDelta and v >= 20); otherwise no
\* byte is consumed for it and the field has its default, 0.
C15_ReinterpretGatedEverywhere ==
  (/\ op \in {"filter", "filter_mod"}
   /\ pc = "done"
   /\ result.status = "ok"
   /\ list[1].config.shape = "Compression")
  => IF ReinterpretExpected(list[1].filter_type, header.version)
     THEN /\ cur = CompressionBase + 1
          /\ list[1].config.reinterpret_type = src[CompressionBase + 1]
     ELSE /\ cur = CompressionBase
          /\ list[1].config.reinterpret_type = 0

EnumRange(enum) ==
  CASE enum = "ArrayType" -> 0..1
    [] enum = "Layout" -> 0..4
    [] enum = "DataOrder" -> 0..2
    [] enum = "DataType" -> 0..41
    [] enum = "FilterType" -> 0..19

\* C16: for each wire enum and every byte b, the conversion from b yields
\* the variant whose code is b when b is in the enum's known range and
\* Invalid otherwise; and a non-Invalid variant converted to its byte and
\* back is the same variant.
C16_FromU8Total ==
  (op = "from_u8" /\ pc = "done")
  => \A i \in 1..Len(WireEnums) :
       /\ fields[i].name = WireEnums[i]
       /\ IF src[1] \in EnumRange(WireEnums[i])
          THEN /\ fields[i].val # "Invalid"
               /\ blob[i] = src[1]
               /\ calls[i] = fields[i].val
          ELSE fields[i].val = "Invalid"

\* byte 2 is in every range but ArrayType's, and has been converted both ways
C16_Witness ==
  /\ op = "from_u8"
  /\ pc = "done"
  /\ src = <<2>>
  /\ fields[1].val = "Invalid"
  /\ fields[3].val = "Decreasing"
  /\ calls[3] = "Decreasing"
  /\ blob[4] = 2

(***************************************************************************)
(* Properties of the conversion to the in-memory schema                    *)
(***************************************************************************)
\* C21: a well-formed schema of a version below 7, which has no
\* cell_validity_filters on the wire, decodes with the empty list in that
\* field, and its conversion to the in-memory ArraySchema succeeds.
C21_AbsentValidityFiltersConverts ==
  (IsFullSchema /\ op = "read" /\ tile.sd.v \in 1..6
   /\ tile.sd.fault = "none")
    => /\ pc = "done" => SchemaDecoded
       /\ Has("cell_validity_filters") =>
            Entry("cell_validity_filters").val = DefaultFilterList
       /\ pc = "converted" => result.status = "ok"

\* The versions whose layout holds the name that fault f spoils.
NameFaultIn(f, v) ==
  \/ f \in {"dim_name", "attr_name"}
  \/ f \in {"label_name", "label_uri", "label_attr"} /\ v >= 18
  \/ f \in {"enmr_name", "map_name", "map_path"} /\ v >= 20

\* C22: a schema holding bytes that are not UTF-8 in a dimension,
\* attribute or dimension-label name, a label uri or attribute name, an
\* enumeration name, or an enumeration-map name or path never crashes the
\* decoder and never yields a schema: decoding or conversion ends in an
\* error value.
C22_InvalidTextIsErrorValue ==
  (IsFullSchema /\ op = "read" /\ tile.sd.v \in 1..21
   /\ NameFaultIn(tile.sd.fault, tile.sd.v))
    => /\ result.status # "panic"
       /\ pc = "converted" => result.status = "err"

(***************************************************************************)
(* Properties of the filter walk over written tiles                        *)
(***************************************************************************)
\* The tile was written by passing each chunk of its logical bytes through
\* a pipeline of implemented filters.
Written ==
  /\ DOMAIN tile = {"version", "kbs", "chunks", "logical"}
  /\ tile.kbs # <<>>
  /\ tile \in GoodTiles

ContainerFailed ==
  /\ pc = "done"
  /\ result.at \in {"header", "pipeline", "chain", "chunks", "unfilter",
                    "concat"}

\* C23: for every number of chunks, every chunk size and every chain of
\* implemented filters, unfilter_chunks over what the writer stored returns
\* the payload byte for byte.
C23_RoundTrip ==
  (op = "read" /\ Written)
    => /\ ~ContainerFailed
       /\ pc \in {"schema", "domain", "done", "converted"}
            => blob = tile.logical

(***************************************************************************)
(* Properties of the schema writer                                         *)
(***************************************************************************)
\* C24: for every version 1..21, a schema blob written by that version,
\* decoded and encoded again, gives the same bytes: what the version gates
\* out is not emitted.
C24_DecodeEncodeIdentity ==
  (IsFullSchema /\ tile.sd.v \in 1..21 /\ tile.sd.fault = "none"
   /\ pc = "encoded")
    => result.val = tile.logical

(***************************************************************************)
(* Properties of ParSpec                                                   *)
(***************************************************************************)
\* The walk of the chain over chunk i alone, from the decoded chunk and a
\* fresh scratch chunk.
WalkAlone(i) ==
  FilterChainUnfilter(chain, Len(chain), DecodedChunks(tile)[i], DefaultChunk)

\* C25: whatever the order or interleaving of the per-chunk steps, chunk
\* i's buffers after its walk are what its walk alone gives (they depend on
\* chunk i and the chain only), a chunk whose walk has not started is
\* untouched, and the final buffer is the one of the sequential loop: the
\* chunk outputs one after another in chunk-index order.
C25_ChunksIndependent ==
  op = "unfilter_chunks" =>
    /\ \A i \in 1..Len(chunks) :
         /\ (link[i] = Len(chain) /\ ~(ContainerFailed /\ idx = i)) =>
              chunks[i] = DecodedChunks(tile)[i] /\ scratch[i] = DefaultChunk
         /\ link[i] = 0 =>
              \A w \in {WalkAlone(i)} :
                w.status = "ok" /\ chunks[i] = w.input /\ scratch[i] = w.output
    /\ pc = "done" =>
         \A seq \in {unfilter_chunks(chain, DecodedChunks(tile))} :
           /\ (result.status = "ok") = (seq.status = "ok")
           /\ result.status = "ok" =>
                /\ result.val = seq.val
                /\ result.val =
                     Flatten([i \in 1..Len(chunks) |-> WalkAlone(i).output.data])

\* two chunks with different bytes, the second one walked first
C25_Witness ==
  /\ op = "unfilter_chunks"
  /\ pc = "done"
  /\ result.status = "ok"
  /\ result.val = <<5, 6>>
  /\ Len(chunks) = 2
  /\ idx = 1


\* The text of name after its last '_' (the whole name when it has none)
SuffixText(name) == SubSeq(name, LastUnderscore(name) + 1, Len(name))

\* The value of a string of decimal digits, most significant first
RECURSIVE Decimal(_)
Decimal(text) ==
  IF text = <<>> THEN 0
  ELSE Decimal(SubSeq(text, 1, Len(text) - 1)) * 10 + (text[Len(text)] - 48)

\* What a five-underscore name's suffix stands for; is = FALSE when it is
\* not an unsigned 32-bit integer in decimal
SuffixNumber(text) ==
  With(IF text # <<>> /\ text[1] = 43 THEN Tail(text) ELSE text, LAMBDA ds :
    IF ds = <<>> \/ \E i \in 1..Len(ds) : ds[i] < 48 \/ ds[i] > 57
    THEN [is |-> FALSE, val |-> 0]
    ELSE IF Len(ds) < Len(U32MaxDigits)
    THEN [is |-> TRUE,
          val |-> IF Decimal(ds) >= Huge THEN Huge ELSE Decimal(ds)]
    ELSE IF ds = U32MaxDigits
    THEN [is |-> TRUE, val |-> Huge] ELSE [is |-> FALSE, val |-> 0])

\* The version the three cases give a name whose suffix measures n
FragmentVersionBy(n) ==
  IF Cardinality(Underscores(tile.name)) = 5
  THEN With(SuffixNumber(SuffixText(tile.name)), LAMBDA v :
         IF v.is THEN result.status = "ok" /\ result.val = <<v.val>>
         ELSE result.status = "err")
  ELSE IF LastUnderscore(tile.name) # 0 /\ n = 32
  THEN result.status = "ok" /\ result.val = <<4>>
  ELSE result.status = "ok" /\ result.val = <<2>>

\* C26 as stated: five underscores give the integer after the last one (an
\* error when it is none), otherwise a suffix of exactly 32 characters gives
\* 4, and every other name gives 2
C26_FragmentVersionByCharacters ==
  (op = "fragment_version" /\ pc = "done") =>
    FragmentVersionBy(Len(SuffixText(tile.name)))

\* C26 amended: the suffix is measured in bytes of its UTF-8 encoding
C26_FragmentVersionByBytes ==
  (op = "fragment_version" /\ pc = "done") =>
    FragmentVersionBy(StrLen(SuffixText(tile.name), 1,
                             Len(SuffixText(tile.name))))

C26_Witness ==
  /\ op = "fragment_version" /\ pc = "done"
  /\ tile.name = Joined(<<<<49>>, <<49>>, Repeat(97, 32), <<50, 49>>>>)
  /\ result.status = "ok" /\ result.val = <<21>>


(***************************************************************************)
(* Properties of the descriptor decoder of storage::filter                 *)
(***************************************************************************)
\* The classification predicates, in the order of the shapes they guard
Classified(i, ftype) ==
  CASE i = 1 -> is_compression_filter(ftype)
    [] i = 2 -> is_bit_width_reduction_filter(ftype)
    [] i = 3 -> is_positive_delta_filter(ftype)
    [] i = 4 -> is_scale_float_filter(ftype)
    [] i = 5 -> is_webp_filter(ftype)
    [] OTHER -> is_no_config_filter(ftype)

\* The configuration shape of the format for a kind byte
KindShape(k) ==
  CASE k \in {1, 2, 3, 4, 5, 6, 14, 19} -> "Compression"
    [] k = 7 -> "BitWidthReduction"
    [] k = 10 -> "PositiveDelta"
    [] k = 15 -> "ScaleFloat"
    [] k = 18 -> "WebP"
    [] OTHER -> "None"

\* C27: for every kind, Invalid included, exactly one classification
\* predicate holds; a decoded descriptor has the shape that predicate guards,
\* which depends on the kind byte only (not on the version, the
\* metadata_len or the bytes that follow); a known kind with its bytes
\* present decodes.
C27_OneShapePerKind ==
  (op = "filter" /\ pc = "done") =>
    \A ft \in {FilterTypeFromU8(tile.kind)} :
      /\ Cardinality({i \in 1..Len(FilterConfigVariants) : Classified(i, ft)}) = 1
      /\ result.status = "ok" =>
           /\ list[1].filter_type = ft
           /\ list[1].config.shape = KindShape(tile.kind)
           /\ \A i \in 1..Len(FilterConfigVariants) :
                Classified(i, ft) => list[1].config.shape = FilterConfigVariants[i]
      /\ (ft # "Invalid" /\ tile.avail = 30) => result.status = "ok"

C27_Witness ==
  /\ op = "filter" /\ pc = "done" /\ result.status = "ok"
  /\ tile.kind = 18 /\ header.version = 1
  /\ list[1].config.shape = "WebP"


\* The descriptor of the tile with another metadata_len, decoded
DecodedWithLen(ml) ==
  ReadFilter(WireDescriptor(tile.kind, ml, tile.compressor, tile.avail), 0,
             header.version)

\* C28: the descriptor decodes with any other metadata_len exactly when it
\* decodes with its own, to the same kind and config and up to the same
\* position; the stored metadata_len is the one written; and a known kind
\* with its bytes present decodes whether or not metadata_len is the number
\* of bytes its config took.
C28_MetadataLenIgnored ==
  (op = "filter" /\ pc = "done") =>
    /\ \A ml \in CodecMetadataLens :
         \A other \in {DecodedWithLen(ml)} :
           /\ other.ok = (result.status = "ok")
           /\ other.ok =>
                /\ other.val.filter_type = list[1].filter_type
                /\ other.val.config = list[1].config
                /\ other.pos = cur
                /\ other.val.metadata_len = ml
    /\ result.status = "ok" => list[1].metadata_len = tile.ml
    /\ (FilterTypeFromU8(tile.kind) # "Invalid" /\ tile.avail = 30) =>
         result.status = "ok"

\* a GZip descriptor announcing 300 bytes of metadata, whose config took 5
C28_Witness ==
  /\ op = "filter" /\ pc = "done" /\ result.status = "ok"
  /\ tile.kind = 1 /\ tile.ml = 300
  /\ list[1].metadata_len = 300
  /\ list[1].config.shape = "Compression"
  /\ cur = CompressionBase


(***************************************************************************)
(* Where the walk leaves its result                                        *)
(***************************************************************************)
\* One stage on its own: what the link's filter makes of a chunk, written
\* to a fresh chunk
StageResult(filter, c) ==
  IF filter.kind = "EmptyFilter" THEN [status |-> "ok", chunk |-> c]
  ELSE With(GZipUnfilter(c, DefaultChunk), LAMBDA r :
         [status |-> r.status, chunk |-> r.output])

\* The stages from link k back to the head, each fed the result of the one
\* before
RECURSIVE StagesResult(_, _, _)
StagesResult(links, k, c) ==
  IF k = 0 THEN [status |-> "ok", chunk |-> c]
  ELSE With(StageResult(links[k], c), LAMBDA r :
         IF r.status # "ok" THEN r ELSE StagesResult(links, k - 1, r.chunk))

\* The logical bytes of chunk i of a written tile
RECURSIVE SizesBefore(_)
SizesBefore(i) ==
  IF i = 1 THEN 0 ELSE SizesBefore(i - 1) + tile.chunks[i - 1].original_size

LogicalChunk(i) ==
  SubSeq(tile.logical, SizesBefore(i) + 1,
         SizesBefore(i) + tile.chunks[i].original_size)

\* C29: once the walk over chunk i has returned Ok, the output chunk holds
\* the result of the last stage (the head's filter applied to the result of
\* the stages before it), for every chain of one or two None and GZip links;
\* for a written tile that is the chunk's logical bytes, and the input chunk
\* holds them only when they are what was stored.
C29_ResultInOutput ==
  op = "unfilter_chunks" =>
    \A i \in 1..Len(chunks) :
      link[i] = 0 =>
        /\ \A last \in {StagesResult(chain, Len(chain), DecodedChunks(tile)[i])} :
             /\ last.status = "ok"
             /\ scratch[i].data = last.chunk.data
             /\ scratch[i].metadata = last.chunk.metadata
        /\ Written =>
             /\ scratch[i].data = LogicalChunk(i)
             /\ chunks[i].data = LogicalChunk(i) =>
                  tile.chunks[i].data = LogicalChunk(i)

\* both links swap: a None link over a GZip link, the walk of chunk 1 over
C29_Witness ==
  /\ op = "unfilter_chunks" /\ Written
  /\ tile.kbs = <<0, 1>>
  /\ Len(chunks) = 2 /\ link[1] = 0
  /\ scratch[1].data = <<5, 6>>
  /\ chunks[1].data # <<5, 6>>


(***************************************************************************)
(* The two copies of the classification                                    *)
(***************************************************************************)
\* C30: a descriptor decoded by storage (mod.rs) and by storage::filter
\* decodes alike and gets the same configuration shape, and the kinds with a
\* compression filter implementation (GZip, Zstd, LZ4) get Compression.
C30_ClassificationCopiesAgree ==
  (op = "filter_mod" /\ pc = "done") =>
    \A other \in {ReadFilter(src, 0, header.version)} :
      /\ other.ok = (result.status = "ok")
      /\ result.status = "ok" =>
           /\ other.val.config.shape = list[1].config.shape
           /\ list[1].filter_type \in {"GZip", "Zstd", "LZ4"} =>
                list[1].config.shape = "Compression"

=============================================================================
